---- MODULE Spec2Model ----
(***************************************************************************)
(* State-machine model of the MonacoEditor Coordinator                     *)
(* (packages/commutable/src/cells.ts, class MonacoEditor): the React       *)
(* lifecycle handlers componentDidMount / componentDidUpdate /             *)
(* componentWillUnmount, the layout decision procedure requestLayout, the  *)
(* viewport handler onIntersecting, the focus and blur handlers, the       *)
(* registration of language features, the dismissal of parameter-hint      *)
(* popups, and the parts of the environment those handlers drive: the      *)
(* native editor library (model registry, editor, timers), the Layout      *)
(* Scheduler and the document's popup elements. The cell record factories  *)
(* of the same file (makeCodeCell, makeMarkdownCell, makeRawCell) are      *)
(* modelled as functions of the values they are given. The BackboneWrapper *)
(* component (packages/jupyter-widgets/src/renderer/backbone-wrapper.tsx)  *)
(* is modelled with the view creations its update passes have in flight.   *)
(*                                                                         *)
(* Every action is one handler run to completion (the event loop is        *)
(* single threaded); the native calls a handler makes are logged, in       *)
(* order, in last.calls.                                                   *)
(***************************************************************************)
EXTENDS Integers, Sequences, FiniteSets, TLC

\* ------------------------------------------------------------------ bounds

\* Upper bound on the number of text models ever created (createModel calls).
MaxModels == 3

\* Upper bound on the length of a cell source given to a cell record factory.
MaxSourceLen == 3

\* Upper bound on the number of update passes of the BackboneWrapper that start a
\* view creation.
MaxCreations == 3

\* ----------------------------------------------------------------- domains

Insts == {1, 2}
CellIds == {1, 2}
Langs == {"python", "markdown"}
Values == {"a", "b"}

\* `undefined` for an optional dimension argument / property
NoDim == <<>>
\* `undefined` for an optional boolean property, whose values are "true" and "false"
Undef == "undefined"

\* no model (editor.getModel() === null, monaco.editor.getModel(uri) === null)
NoModel == 0

VARIABLES
    phase,    \* per instance: "new" (constructed), "mounted", "unmounted"
    props,    \* per instance: this.props
    editor,   \* per instance: this.editor is set
    ed,       \* per instance: the native editor [model, disposed, focus, position, contentHeight,
              \* layoutWidth, options]
    view,     \* per instance: [isInViewport, deferredLayoutRequest, deferredLayoutDimension,
              \* intersectObservation, cursorPositionListener, cursorListeners]
    dom,      \* per instance: the container element [offsetParent, offsetHeight, clientWidth, clientHeight]
    models,   \* monaco's model registry: sequence of [uri, lang, value, live, eol, disposals]
    timers,   \* setTimeout(.., 0) queue: model ids whose dispose is pending, FIFO
    pending,  \* the Layout Scheduler's pending set, per instance: [scheduled, dimension]
    widgets,  \* per instance: the parameter-hint popup element of its container
              \* [present, visibleClass, visibility]
    pointer,  \* the pointer's coordinates <<x, y>>
    wrapper,  \* the BackboneWrapper component: [phase, props, ref, created, inflight, rendered]
    last      \* the handler or function that ran last: [op, inst, calls, threw]

vars == <<phase, props, editor, ed, view, dom, models, timers, pending, widgets, pointer,
          wrapper, last>>

\* ------------------------------------------------- sequences of native calls

Call(name, arg) == <<name, arg>>

CallsNamed(calls, name) == SelectSeq(calls, LAMBDA c : c[1] = name)

Count(calls, name) == Len(CallsNamed(calls, name))

\* ------------------------------------------------------ model registry (monaco)

\* monaco.Uri.file(id)
FileUri(id) == <<"file", "", id, "">>

\* DocumentUri.createCellUri(contentRef, id, language)
CreateCellUri(contentRef, id, language) == <<"cell", contentRef, id, language>>

ModelIds == 1..Len(models)

\* monaco.editor.getModel(uri): the live model registered at uri, or null
GetModel(ms, uri) ==
    LET hits == {m \in 1..Len(ms) : ms[m].live /\ ms[m].uri = uri}
    IN IF hits = {} THEN NoModel ELSE CHOOSE m \in hits : \A k \in hits : m <= k

\* monaco.editor.createModel(value, language, uri)
CreateModel(ms, value, language, uri) ==
    Append(ms, [uri |-> uri, lang |-> language, value |-> value,
                live |-> TRUE, eol |-> "default", disposals |-> 0])

\* Mutant: the line-ending convention of the model is left as created
SetEOL_Skipped(ms, m) == ms

\* model.setEOL(EndOfLineSequence.LF)
SetEOL(ms, m) == [ms EXCEPT ![m].eol = "LF"]

\* model.dispose()
DisposeModel(ms, m) == [ms EXCEPT ![m].live = FALSE, ![m].disposals = @ + 1]

\* the editors lose a model that is disposed (the editor widget detaches it)
DetachDisposed(eds, ms) ==
    [j \in Insts |->
        IF eds[j].model # NoModel /\ ~ms[eds[j].model].live
        THEN [eds[j] EXCEPT !.model = NoModel]
        ELSE eds[j]]

\* editor.getValue()
EditorGetValue(ms, e) == IF e.model = NoModel THEN "" ELSE ms[e.model].value

\* editor.setValue(v)
EditorSetValue(ms, e, v) == IF e.model = NoModel THEN ms ELSE [ms EXCEPT ![e.model].value = v]

\* editor.focus(): the browser gives focus only to an element that is rendered
EditorFocus(e, d) == [e EXCEPT !.focus = @ \/ d.offsetParent]

Min(a, b) == IF a <= b THEN a ELSE b

\* -------------------------------------------------------------------- cursor

\* The cursor positions of a text: the columns 1 .. length + 1 of its one line
Positions(text) == 1..(Len(text) + 1)

\* The editor validates a cursor position against its model: a position beyond
\* the end of the text becomes the end of the text; no model, no position
ValidatePosition(ms, m, pos) ==
    IF m = NoModel THEN 0 ELSE Min(pos, Len(ms[m].value) + 1)

\* editor.setPosition(position)
EditorSetPosition(ms, e, pos) == [e EXCEPT !.position = ValidatePosition(ms, e.model, pos)]

\* The cursors of the editors that show model m go back to the start of the text
\* when its whole text is replaced (setValue)
ResetCursors(eds, m) ==
    [j \in Insts |->
        IF m # NoModel /\ eds[j].model = m THEN [eds[j] EXCEPT !.position = 1] ELSE eds[j]]

\* The cursors of the editors stay inside the text of their models
ClampCursors(eds, ms) ==
    [j \in Insts |->
        IF eds[j].model = NoModel THEN eds[j]
        ELSE [eds[j] EXCEPT !.position = ValidatePosition(ms, eds[j].model, @)]]

\* ------------------------------------------------------------------ layout

\* readEditorDomSize()
ReadEditorDomSize(hasEditor, d) ==
    IF ~hasEditor THEN NoDim ELSE <<d.clientWidth, d.clientHeight>>

\* this.props.autoFitContentHeight ?? true
AutoFit(p) == IF p.autoFitContentHeight = Undef THEN TRUE ELSE p.autoFitContentHeight = "true"

\* Mutant: a container measured zero wide or high is laid out like any other
GetLayoutDimension_NoZeroCheck(p, hasEditor, e, d) ==
    LET dim == ReadEditorDomSize(hasEditor, d)
    IN IF dim = NoDim THEN NoDim
       ELSE LET h1 == IF AutoFit(p) /\ e.contentHeight # 0 THEN e.contentHeight ELSE dim[2]
                h2 == IF p.maxContentHeight # 0 THEN Min(h1, p.maxContentHeight) ELSE h1
            IN <<dim[1], h2>>

\* getLayoutDimension()
GetLayoutDimension(p, hasEditor, e, d) ==
    LET dim == ReadEditorDomSize(hasEditor, d)
    IN IF dim = NoDim \/ dim[1] = 0 \/ dim[2] = 0 THEN NoDim
       ELSE LET h1 == IF AutoFit(p) /\ e.contentHeight # 0 THEN e.contentHeight ELSE dim[2]
                h2 == IF p.maxContentHeight # 0 THEN Min(h1, p.maxContentHeight) ELSE h1
            IN <<dim[1], h2>>

\* Mutant: only the offset parent is looked at, a zero height passes as visible
IsContainerHidden_NoHeightCheck(hasContainer, d) == ~(hasContainer /\ d.offsetParent)

\* isContainerHidden()
IsContainerHidden(hasContainer, d) ==
    ~(hasContainer /\ d.offsetParent) \/ ~(hasContainer /\ d.offsetHeight # 0)

\* shouldLayout()
ShouldLayout(p, hasContainer, d) ==
    IF p.skipLayoutWhenHidden THEN ~IsContainerHidden(hasContainer, d) ELSE TRUE

\* layout(layout): the native editor.layout call, if there is an editor
Layout(hasEditor, dim) == IF ~hasEditor THEN <<>> ELSE <<Call("layout", dim)>>

\* Mutant: the batching flag is not looked at, the layout is always applied at once
RequestLayout_Synchronous(p, hasEditor, hasContainer, e, d, vw, dimension) ==
    LET asked == <<Call("requestLayout", dimension)>>
    IN IF ~hasEditor THEN [view |-> vw, calls |-> asked]
       ELSE IF ~vw.isInViewport
       THEN [view |-> [vw EXCEPT !.deferredLayoutDimension = dimension,
                                 !.deferredLayoutRequest = TRUE],
             calls |-> asked]
       ELSE IF ~ShouldLayout(p, hasContainer, d) THEN [view |-> vw, calls |-> asked]
       ELSE LET dim == IF dimension = NoDim
                       THEN GetLayoutDimension(p, hasEditor, e, d)
                       ELSE dimension
            IN [view |-> vw,
                calls |-> asked \o (IF dim # NoDim THEN Layout(hasEditor, dim) ELSE <<>>)]

\* Mutant: a request without a dimension keeps the dimension stashed before it
RequestLayout_KeepsExplicitStash(p, hasEditor, hasContainer, e, d, vw, dimension) ==
    LET asked == <<Call("requestLayout", dimension)>>
    IN IF ~hasEditor THEN [view |-> vw, calls |-> asked]
       ELSE IF ~vw.isInViewport
       THEN [view |-> [vw EXCEPT !.deferredLayoutDimension =
                                     IF dimension = NoDim /\ vw.deferredLayoutRequest
                                     THEN @ ELSE dimension,
                                 !.deferredLayoutRequest = TRUE],
             calls |-> asked]
       ELSE IF ~ShouldLayout(p, hasContainer, d) THEN [view |-> vw, calls |-> asked]
       ELSE IF p.batchLayoutChanges
       THEN [view |-> vw, calls |-> asked \o <<Call("scheduleEditorForLayout", dimension)>>]
       ELSE LET dim == IF dimension = NoDim
                       THEN GetLayoutDimension(p, hasEditor, e, d)
                       ELSE dimension
            IN [view |-> vw,
                calls |-> asked \o (IF dim # NoDim THEN Layout(hasEditor, dim) ELSE <<>>)]

\* requestLayout(dimension): the new viewport record and the calls made
RequestLayout(p, hasEditor, hasContainer, e, d, vw, dimension) ==
    LET asked == <<Call("requestLayout", dimension)>>
    IN IF ~hasEditor THEN [view |-> vw, calls |-> asked]
       ELSE IF ~vw.isInViewport
       THEN [view |-> [vw EXCEPT !.deferredLayoutDimension = dimension,
                                 !.deferredLayoutRequest = TRUE],
             calls |-> asked]
       ELSE IF ~ShouldLayout(p, hasContainer, d) THEN [view |-> vw, calls |-> asked]
       ELSE IF p.batchLayoutChanges
       THEN [view |-> vw, calls |-> asked \o <<Call("scheduleEditorForLayout", dimension)>>]
       ELSE LET dim == IF dimension = NoDim
                       THEN GetLayoutDimension(p, hasEditor, e, d)
                       ELSE dimension
            IN [view |-> vw,
                calls |-> asked \o (IF dim # NoDim THEN Layout(hasEditor, dim) ELSE <<>>)]

\* Mutant: the deferred request is flushed without its stashed dimension
Intersecting_DropsDimension(p, hasEditor, hasContainer, e, d, vw, isIntersecting) ==
    IF vw.isInViewport # isIntersecting
    THEN LET vw1 == [vw EXCEPT !.isInViewport = isIntersecting]
         IN IF vw1.isInViewport /\ vw1.deferredLayoutRequest
            THEN RequestLayout(p, hasEditor, hasContainer, e, d,
                               [vw1 EXCEPT !.deferredLayoutRequest = FALSE], NoDim)
            ELSE [view |-> vw1, calls |-> <<>>]
    ELSE [view |-> vw, calls |-> <<>>]

\* Mutant: the deferred flag is left set when the deferred request is flushed
Intersecting_KeepsFlag(p, hasEditor, hasContainer, e, d, vw, isIntersecting) ==
    IF vw.isInViewport # isIntersecting
    THEN LET vw1 == [vw EXCEPT !.isInViewport = isIntersecting]
         IN IF vw1.isInViewport /\ vw1.deferredLayoutRequest
            THEN RequestLayout(p, hasEditor, hasContainer, e, d, vw1,
                               vw1.deferredLayoutDimension)
            ELSE [view |-> vw1, calls |-> <<>>]
    ELSE [view |-> vw, calls |-> <<>>]

\* onIntersecting(isIntersecting)
Intersecting(p, hasEditor, hasContainer, e, d, vw, isIntersecting) ==
    IF vw.isInViewport # isIntersecting
    THEN LET vw1 == [vw EXCEPT !.isInViewport = isIntersecting]
         IN IF vw1.isInViewport /\ vw1.deferredLayoutRequest
            THEN RequestLayout(p, hasEditor, hasContainer, e, d,
                               [vw1 EXCEPT !.deferredLayoutRequest = FALSE],
                               vw1.deferredLayoutDimension)
            ELSE [view |-> vw1, calls |-> <<>>]
    ELSE [view |-> vw, calls |-> <<>>]

\* Mutant: disabling the feature ceases the observation and leaves the flag as it is
UpdateIntersectRegistration_NoReset(p, hasContainer, vw) ==
    IF p.skipLayoutWhenNotInViewport
    THEN IF hasContainer /\ ~vw.intersectObservation
         THEN [vw EXCEPT !.isInViewport = FALSE, !.intersectObservation = TRUE]
         ELSE vw
    ELSE [vw EXCEPT !.intersectObservation = FALSE]

\* updateIntersectRegistration()
UpdateIntersectRegistration(p, hasContainer, vw) ==
    IF p.skipLayoutWhenNotInViewport
    THEN IF hasContainer /\ ~vw.intersectObservation
         THEN [vw EXCEPT !.isInViewport = FALSE, !.intersectObservation = TRUE]
         ELSE vw
    ELSE [vw EXCEPT !.intersectObservation = FALSE, !.isInViewport = TRUE]

\* The effect of the native editor.layout calls among `calls` on the editor
ApplyLayout(e, calls) ==
    LET ls == CallsNamed(calls, "layout")
    IN IF ls = <<>> THEN e ELSE [e EXCEPT !.layoutWidth = ls[Len(ls)][2][1]]

\* --------------------------------------------------------- Layout Scheduler

\* an instance with no request in the pending set
Unscheduled == [scheduled |-> FALSE, dimension |-> NoDim]

\* Mutant: a request of an instance already in the pending set is ignored
Schedule_FirstWriteWins(pd, i, dimension) ==
    IF pd[i].scheduled THEN pd ELSE [pd EXCEPT ![i] = [scheduled |-> TRUE, dimension |-> dimension]]

\* scheduleEditorForLayout(instance, dimension): registers the instance, or
\* overwrites its pending dimension
Schedule(pd, i, dimension) == [pd EXCEPT ![i] = [scheduled |-> TRUE, dimension |-> dimension]]

\* The effect of the scheduleEditorForLayout calls among `calls`, made by instance i
RECURSIVE ApplySchedule(_, _, _)
ApplySchedule(pd, i, calls) ==
    IF calls = <<>> THEN pd
    ELSE LET pd1 == IF Head(calls)[1] = "scheduleEditorForLayout"
                    THEN Schedule(pd, i, Head(calls)[2]) ELSE pd
         IN ApplySchedule(pd1, i, Tail(calls))

\* The flush, for instance i: its direct-layout operation is called with the
\* pending dimension, or with a freshly measured one if none was given
FlushOne(pd, i, p, hasEditor, e, d) ==
    IF ~pd[i].scheduled THEN <<>>
    ELSE LET dim == IF pd[i].dimension # NoDim THEN pd[i].dimension
                    ELSE GetLayoutDimension(p, hasEditor, e, d)
         IN IF dim # NoDim /\ hasEditor THEN <<<<"layout", dim, i>>>> ELSE <<>>

\* ------------------------------------------------------ parameter-hint popups

\* const HOVER_BOUND_DEFAULT_PADDING: number = 5
HOVER_BOUND_DEFAULT_PADDING == 5

\* a container with no parameter-hint element in it
NoWidget == [present |-> FALSE, visibleClass |-> FALSE, visibility |-> "inherit"]

\* element.getBoundingClientRect() of the popup of instance i: the popups of the
\* two editors lie one below the other
PopupRect(i) ==
    [left |-> 10, right |-> 20, top |-> 10 + 30 * (i - 1), bottom |-> 20 + 30 * (i - 1)]

\* The pointer coordinates the page is probed at: around the edges of both
\* popups and of their padded boxes
Xs == {4, 5, 15}
Ys == {4, 5, 15, 25, 26, 34, 35, 45}

\* coordsInsideElement(element, x, y, padding)
CoordsInsideElement(hasElement, rect, x, y, padding) ==
    IF ~hasElement THEN FALSE
    ELSE /\ x >= rect.left - padding
         /\ x <= rect.right + padding
         /\ y >= rect.top - padding
         /\ y <= rect.bottom + padding

\* The popup is displayed: it carries the "visible" class and is not forced invisible
PopupShown(w) == w.present /\ w.visibleClass /\ w.visibility # "hidden"

\* hideWidgets(widgetParent, [".parameter-hints-widget"]), for each container in parents
HideWidgets(ws, parents) ==
    [j \in Insts |->
        IF j \in parents /\ ws[j].present
        THEN [ws[j] EXCEPT !.visibleClass = FALSE, !.visibility = "hidden"]
        ELSE ws[j]]

\* Mutant: only the popup that the document query finds is hidden
HideAllOtherParameterWidgets_OnlyFirst(ws, i, hasContainer) ==
    IF ~hasContainer THEN ws
    ELSE HideWidgets(ws, {j \in Insts \ {i} : \A k \in Insts : ws[k].present => j <= k})

\* hideAllOtherParameterWidgets(), run by instance i
HideAllOtherParameterWidgets(ws, i, hasContainer) ==
    IF ~hasContainer THEN ws ELSE HideWidgets(ws, Insts \ {i})

\* document.querySelector(".parameter-hints-widget"): the first popup element of
\* the document, 0 when there is none
QueryParameterHintsWidget(ws) ==
    LET hits == {j \in Insts : ws[j].present}
    IN IF hits = {} THEN 0 ELSE CHOOSE j \in hits : \A k \in hits : j <= k

\* handleCoordsOutsideWidgetActiveRegion(x, y), run by instance i
HandleCoordsOutsideWidgetActiveRegion(ws, i, hasContainer, x, y) ==
    LET widget == QueryParameterHintsWidget(ws)
    IN IF widget # 0
          /\ ~CoordsInsideElement(TRUE, PopupRect(widget), x, y, HOVER_BOUND_DEFAULT_PADDING)
       THEN HideAllOtherParameterWidgets(ws, i, hasContainer)
       ELSE ws

\* The popup of instance i is among document.querySelectorAll(":hover"): it is
\* displayed and the pointer is over it
Hovered(ws, i, ptr) ==
    /\ PopupShown(ws[i])
    /\ CoordsInsideElement(TRUE, PopupRect(i), ptr[1], ptr[2], 0)

\* Mutant: the popup is hidden on blur whether the pointer is over it or not
HideParameterWidget_NoHoverCheck(ws, i, hasEditor, hasContainer, hasWidgetFocus, ptr) ==
    IF ~hasEditor \/ ~hasContainer THEN ws
    ELSE IF hasWidgetFocus THEN ws
    ELSE HideWidgets(ws, {i})

\* hideParameterWidget(), run by instance i
HideParameterWidget(ws, i, hasEditor, hasContainer, hasWidgetFocus, ptr) ==
    IF ~hasEditor \/ ~hasContainer THEN ws
    ELSE LET isParameterWidgetHovered ==
                 ws[i].present /\ ws[i].visibleClass /\ Hovered(ws, i, ptr)
         IN IF isParameterWidgetHovered THEN ws
            ELSE IF hasWidgetFocus THEN ws
            ELSE HideWidgets(ws, {i})

\* ------------------------------------------ completion and format providers

\* Mutant: the default provider is registered even when the caller supplied a hook
RegisterCompletionProvider_DefaultAlso(p) ==
    IF p.enableCompletion /\ p.language # ""
    THEN (IF p.onRegisterCompletionProvider
          THEN <<Call("onRegisterCompletionProvider", p.language)>> ELSE <<>>)
         \o (IF p.shouldRegisterDefaultCompletion
             THEN <<Call("registerDefaultCompletionProvider", p.language)>> ELSE <<>>)
    ELSE <<>>

\* registerCompletionProvider()
RegisterCompletionProvider(p) ==
    IF p.enableCompletion /\ p.language # ""
    THEN IF p.onRegisterCompletionProvider
         THEN <<Call("onRegisterCompletionProvider", p.language)>>
         ELSE IF p.shouldRegisterDefaultCompletion
         THEN <<Call("registerDefaultCompletionProvider", p.language)>>
         ELSE <<>>
    ELSE <<>>

\* registerDocumentFormatter()
RegisterDocumentFormatter(p) ==
    IF p.enableFormatting /\ p.language # ""
    THEN IF p.onRegisterDocumentFormattingEditProvider
         THEN <<Call("onRegisterDocumentFormattingEditProvider", p.language)>>
         ELSE <<>>
    ELSE <<>>

\* ------------------------------------------------------------ focus and blur

\* Mutant: a cursor listener is registered whether or not one is held already
RegisterCursorListener_Unguarded(p, hasEditor, vw) ==
    IF hasEditor /\ p.onCursorPositionChange
    THEN [view |-> [vw EXCEPT !.cursorPositionListener = TRUE, !.cursorListeners = @ + 1],
          calls |-> <<Call("onCursorPositionChange", 0), Call("onDidChangeCursorSelection", 0)>>]
    ELSE [view |-> vw, calls |-> <<>>]

\* registerCursorListener(). cursorListeners counts the subscriptions to
\* editor.onDidChangeCursorSelection that have not been disposed.
RegisterCursorListener(p, hasEditor, vw) ==
    IF hasEditor /\ p.onCursorPositionChange
    THEN IF ~vw.cursorPositionListener
         THEN [view |-> [vw EXCEPT !.cursorPositionListener = TRUE, !.cursorListeners = @ + 1],
               calls |-> <<Call("onCursorPositionChange", 0),
                           Call("onDidChangeCursorSelection", 0)>>]
         ELSE [view |-> vw, calls |-> <<Call("onCursorPositionChange", 0)>>]
    ELSE [view |-> vw, calls |-> <<>>]

\* unregisterCursorListener()
UnregisterCursorListener(vw) ==
    IF vw.cursorPositionListener
    THEN [view |-> [vw EXCEPT !.cursorPositionListener = FALSE, !.cursorListeners = @ - 1],
          calls |-> <<Call("cursorPositionListener.dispose", 0)>>]
    ELSE [view |-> vw, calls |-> <<>>]

\* toggleEditorOptions(isActive)
ToggleEditorOptions(hasEditor, isActive) ==
    IF hasEditor THEN <<Call("toggleEditorOptions", isActive)>> ELSE <<>>

\* onFocus()
OnFocus(p, hasEditor, vw) ==
    LET rc == RegisterCursorListener(p, hasEditor, vw)
    IN [view |-> rc.view,
        calls |-> (IF p.onFocusChange THEN <<Call("onFocusChange", TRUE)>> ELSE <<>>)
                  \o ToggleEditorOptions(hasEditor, TRUE) \o rc.calls]

\* onBlur(), run by instance i
OnBlur(p, hasEditor, hasContainer, vw, ws, i, hasWidgetFocus, ptr) ==
    LET uc == UnregisterCursorListener(vw)
    IN [view |-> uc.view,
        widgets |-> HideParameterWidget(ws, i, hasEditor, hasContainer, hasWidgetFocus, ptr),
        calls |-> (IF p.onFocusChange THEN <<Call("onFocusChange", FALSE)>> ELSE <<>>)
                  \o ToggleEditorOptions(hasEditor, FALSE) \o uc.calls]

\* editor.focus() once the editor's listeners are attached: the widget gets the
\* focus if it can, and onDidFocusEditorWidget then runs onFocus()
FocusEditor(p, e, d, vw) ==
    LET e1 == EditorFocus(e, d)
        r == IF ~e.focus /\ e1.focus THEN OnFocus(p, TRUE, vw) ELSE [view |-> vw, calls |-> <<>>]
    IN [e |-> e1, view |-> r.view, calls |-> <<Call("focus", e.focus)>> \o r.calls]

\* ------------------------------------------------------------ editor options

\* The options of an editor that has not been created
NoOptions == [lineNumbers |-> "", readOnly |-> FALSE, theme |-> ""]

\* The lineNumbers, readOnly and theme options of monaco.editor.create(container, {...})
CreateOptions(p) ==
    [lineNumbers |-> IF p.lineNumbers THEN "on" ELSE "off", readOnly |-> p.readOnly,
     theme |-> p.theme]

\* editor.updateOptions(monacoUpdateOptions) of componentDidUpdate: readOnly, and
\* the theme if one is set
UpdateOptions(e, p) ==
    [e EXCEPT !.options.readOnly = p.readOnly,
              !.options.theme = IF p.theme # "" THEN p.theme ELSE @]

\* ------------------------------------------------------- componentDidUpdate

\* Mutant: the value is pushed whenever the property changed, whatever the live text is
ShouldSetValue_NoTextCheck(prevValue, newValue, text) == prevValue # newValue

\* prevProps.value !== this.props.value && this.editor.getValue() !== this.props.value
ShouldSetValue(prevValue, newValue, text) == prevValue # newValue /\ text # newValue

\* Mutant: the swap is attempted on every pass, the language changed or not
LanguageChanged_Always(ms, cur, language) == cur # NoModel /\ language # ""

\* model && language && model.getLanguageId() !== language
LanguageChanged(ms, cur, language) ==
    cur # NoModel /\ language # "" /\ ms[cur].lang # language

\* Mutant: a model is created without looking one up at the identity first
NoModelAt_NoLookup(ms, uri) == TRUE

\* !monaco.editor.getModel(newUri)
NoModelAt(ms, uri) == GetModel(ms, uri) = NoModel

\* Mutant: focus is applied whenever it is requested, held already or not
ShouldFocus_NoWidgetCheck(editorFocused, hasWidgetFocus) == editorFocused

\* editorFocused && !editor.hasWidgetFocus()
ShouldFocus(editorFocused, hasWidgetFocus) == editorFocused /\ ~hasWidgetFocus

\* Mutant: the old model is disposed inside the update pass
DeferDispose_Synchronous(tm, ms, old) ==
    [timers |-> tm, models |-> DisposeModel(ms, old), calls |-> <<Call("dispose", old)>>]

\* setTimeout(() => { model.dispose(); }, 0): the old model's disposal is queued
DeferDispose(tm, ms, old) ==
    [timers |-> Append(tm, old), models |-> ms, calls |-> <<Call("setTimeout", old)>>]

\* !this.editorContainerRef.current?.offsetParent
Detached(hasContainer, d) == ~(hasContainer /\ d.offsetParent)

\* The language swap of componentDidUpdate: a new model at the new identity is
\* created, installed, the old one queued for disposal, cursor and focus restored.
SwapModel(np, ms, e, d, tm, vw) ==
    LET old == e.model
        newUri == CreateCellUri(np.contentRef, np.id, np.language)
    IN IF LanguageChanged(ms, old, np.language) /\ NoModelAt(ms, newUri)
       THEN LET position == e.position
                new == Len(ms) + 1
                ms1 == SetEOL(CreateModel(ms, np.value, np.language, newUri), new)
                \* editor.setModel(newModel): the cursor goes to the start of the new model
                e1 == [e EXCEPT !.model = new, !.position = 1]
                dd == DeferDispose(tm, ms1, old)
                e2 == IF position # 0 THEN EditorSetPosition(ms1, e1, position) ELSE e1
                fe == IF ShouldFocus(np.editorFocused, e2.focus)
                      THEN FocusEditor(np, e2, d, vw)
                      ELSE [e |-> e2, view |-> vw, calls |-> <<>>]
            IN [models |-> dd.models, e |-> fe.e, timers |-> dd.timers, view |-> fe.view,
                calls |-> <<Call("createModel", new), Call("setEOL", new),
                            Call("setModel", new)>> \o dd.calls
                          \o (IF position # 0 THEN <<Call("setPosition", position)>> ELSE <<>>)
                          \o fe.calls]
       ELSE [models |-> ms, e |-> e, timers |-> tm, view |-> vw, calls |-> <<>>]

\* componentDidUpdate(prevProps), this.editor being set
DidUpdate(prev, np, ms, e, d, vw, tm) ==
    LET vw1 == UpdateIntersectRegistration(np, TRUE, vw)
        doSet == ShouldSetValue(prev.value, np.value, EditorGetValue(ms, e))
        ms1 == IF doSet THEN EditorSetValue(ms, e, np.value) ELSE ms
        c1 == IF doSet THEN <<Call("setValue", np.value)>> ELSE <<>>
        \* the cursor of an editor whose whole text is replaced goes to the start
        e0 == IF doSet /\ e.model # NoModel THEN [e EXCEPT !.position = 1] ELSE e
        sw0 == SwapModel(np, ms1, e0, d, tm, vw1)
        sw == [sw0 EXCEPT !.e = UpdateOptions(@, np)]
        c2 == c1 \o RegisterCompletionProvider(np) \o sw.calls
              \o <<Call("updateOptions", np.readOnly)>>
        \* the model whose text setValue replaced, if any
        set == IF doSet THEN e.model ELSE NoModel
    IN IF Detached(TRUE, d)
       THEN [models |-> sw.models, e |-> sw.e, view |-> sw.view, timers |-> sw.timers,
             calls |-> c2, set |-> set]
       ELSE LET fe == IF ShouldFocus(np.editorFocused, sw.e.focus)
                      THEN FocusEditor(np, sw.e, d, sw.view)
                      ELSE [e |-> sw.e, view |-> sw.view, calls |-> <<>>]
                rl == RequestLayout(np, TRUE, TRUE, fe.e, d, fe.view, NoDim)
            IN [models |-> sw.models, e |-> fe.e, view |-> rl.view, timers |-> sw.timers,
                calls |-> c2 \o fe.calls \o rl.calls,
                set |-> set]

\* The models a pass would create fit the bound of the model.
Fits(ms) == Len(ms) <= MaxModels

Update(i, np) ==
    /\ phase[i] = "mounted"
    /\ props' = [props EXCEPT ![i] = np]
    /\ IF ~editor[i]
       THEN /\ last' = [op |-> "update", inst |-> i, calls |-> <<>>, threw |-> FALSE]
            /\ UNCHANGED <<phase, editor, ed, view, dom, models, timers, pending, widgets,
                           pointer, wrapper>>
       ELSE LET r == DidUpdate(props[i], np, models, ed[i], dom[i], view[i], timers)
            IN /\ Fits(r.models)
               /\ models' = r.models
               /\ ed' = DetachDisposed([ResetCursors(ed, r.set)
                                            EXCEPT ![i] = ApplyLayout(r.e, r.calls)], r.models)
               /\ view' = [view EXCEPT ![i] = r.view]
               /\ timers' = r.timers
               /\ pending' = ApplySchedule(pending, i, r.calls)
               /\ last' = [op |-> "update", inst |-> i, calls |-> r.calls, threw |-> FALSE]
               /\ UNCHANGED <<phase, editor, dom, widgets, pointer, wrapper>>

\* The setTimeout callback of componentDidUpdate: model.dispose() of the old model
RunTimer ==
    /\ timers # <<>>
    /\ LET m == Head(timers)
           ms == DisposeModel(models, m)
       IN /\ models' = ms
          /\ ed' = DetachDisposed(ed, ms)
          /\ last' = [op |-> "timer", inst |-> 0, calls |-> <<Call("dispose", m)>>, threw |-> FALSE]
    /\ timers' = Tail(timers)
    /\ UNCHANGED <<phase, props, editor, view, dom, pending, widgets, pointer, wrapper>>

\* -------------------------------------------------------- componentDidMount

\* no modelUri property
NoUri == <<>>

\* The model the editor is created on: the one registered at the uri, else a new one
MountModel(p, modelUri, ms) ==
    LET uri == IF modelUri # NoUri THEN modelUri ELSE FileUri(p.id)
        found == GetModel(ms, uri)
    IN IF NoModelAt(ms, uri)
       THEN [models |-> CreateModel(ms, p.value, p.language, uri), model |-> Len(ms) + 1,
             calls |-> <<Call("createModel", Len(ms) + 1)>>]
       ELSE [models |-> ms, model |-> found, calls |-> <<>>]

\* componentDidMount(), the container being rendered. wf: whether the widget
\* holds focus once the host's creation callbacks have run.
DidMount(p, modelUri, wf, ms, e, d, vw) ==
    LET vw1 == UpdateIntersectRegistration(p, TRUE, vw)
        mm == MountModel(p, modelUri, ms)
        ms1 == SetEOL(mm.models, mm.model)
        \* monaco.editor.create(container, {model, dimension: initialDimension, ...})
        e1 == [e EXCEPT !.model = mm.model, !.disposed = FALSE, !.focus = wf, !.position = 1,
                        !.options = CreateOptions(p),
                        !.layoutWidth = IF p.initialDimension # NoDim
                                        THEN p.initialDimension[1] ELSE d.clientWidth]
        foc == ShouldFocus(p.editorFocused, e1.focus)
        e2 == IF foc THEN EditorFocus(e1, d) ELSE e1
        rc == IF p.editorFocused THEN RegisterCursorListener(p, TRUE, vw1)
              ELSE [view |-> vw1, calls |-> <<>>]
        rl == RequestLayout(p, TRUE, TRUE, e2, d, rc.view, p.initialDimension)
        calls == RegisterCompletionProvider(p) \o RegisterDocumentFormatter(p)
                 \o mm.calls \o <<Call("setEOL", mm.model), Call("create", mm.model)>>
                 \o ToggleEditorOptions(TRUE, p.editorFocused)
                 \o (IF foc THEN <<Call("focus", e1.focus)>> ELSE <<>>)
                 \o rc.calls \o rl.calls
    IN [models |-> ms1, e |-> ApplyLayout(e2, calls), view |-> rl.view, calls |-> calls]

Mount(i, p, modelUri, wf) ==
    /\ phase[i] = "new"
    /\ LET r == DidMount(p, modelUri, wf, models, ed[i], dom[i], view[i])
       IN /\ Fits(r.models)
          /\ models' = r.models
          /\ ed' = [ed EXCEPT ![i] = r.e]
          /\ view' = [view EXCEPT ![i] = r.view]
          /\ pending' = ApplySchedule(pending, i, r.calls)
          /\ last' = [op |-> "mount", inst |-> i, calls |-> r.calls, threw |-> FALSE]
    /\ phase' = [phase EXCEPT ![i] = "mounted"]
    /\ props' = [props EXCEPT ![i] = p]
    /\ editor' = [editor EXCEPT ![i] = TRUE]
    /\ UNCHANGED <<dom, timers, widgets, pointer, wrapper>>

\* ----------------------------------------------------- componentWillUnmount

\* editor.dispose()
DisposeEditor(e) == [e EXCEPT !.model = NoModel, !.disposed = TRUE, !.focus = FALSE, !.position = 0]

\* The try block of componentWillUnmount. at: the native dispose that throws
\* ("none", "model", "editor"); done: whether the throwing dispose had taken effect.
\* handle: whether this.editor is still set afterwards.
WillUnmount(at, done, ms, e, vw) ==
    LET model == e.model
        c0 == <<Call("unobserve", 0)>>
              \o (IF vw.intersectObservation THEN <<Call("intersectObservation", 0)>> ELSE <<>>)
        vw1 == [vw EXCEPT !.intersectObservation = FALSE]
        c1 == c0 \o (IF model # NoModel THEN <<Call("dispose", model)>> ELSE <<>>)
        ms1 == IF model # NoModel /\ (at # "model" \/ done) THEN DisposeModel(ms, model) ELSE ms
    IN IF at = "model"
       THEN [models |-> ms1, e |-> e, view |-> vw1, calls |-> c1, handle |-> TRUE, threw |-> TRUE]
       ELSE IF at = "editor"
       THEN [models |-> ms1, e |-> IF done THEN DisposeEditor(e) ELSE e, view |-> vw1,
             calls |-> c1 \o <<Call("editor.dispose", 0)>>, handle |-> TRUE, threw |-> TRUE]
       ELSE [models |-> ms1, e |-> DisposeEditor(e), view |-> vw1,
             calls |-> c1 \o <<Call("editor.dispose", 0)>>, handle |-> FALSE, threw |-> FALSE]

Unmount(i, at, done) ==
    /\ phase[i] = "mounted"
    /\ at = "model" => editor[i] /\ ed[i].model # NoModel
    /\ at = "editor" => editor[i]
    /\ at = "none" => done
    /\ phase' = [phase EXCEPT ![i] = "unmounted"]
    /\ IF editor[i]
       THEN LET r == WillUnmount(at, done, models, ed[i], view[i])
            IN /\ models' = r.models
               /\ ed' = DetachDisposed([ed EXCEPT ![i] = r.e], r.models)
               /\ view' = [view EXCEPT ![i] = r.view]
               /\ editor' = [editor EXCEPT ![i] = r.handle]
               /\ last' = [op |-> "unmount", inst |-> i,
                           calls |-> r.calls \o <<Call("mouseMoveListener.dispose", 0)>>,
                           threw |-> r.threw]
       ELSE /\ last' = [op |-> "unmount", inst |-> i, calls |-> <<>>, threw |-> FALSE]
            /\ UNCHANGED <<models, ed, view, editor>>
    \* the host takes the container, and the popup in it, out of the document
    /\ widgets' = [widgets EXCEPT ![i] = NoWidget]
    /\ UNCHANGED <<props, dom, timers, pending, pointer, wrapper>>

\* ------------------------------------------------------------------- events

\* onResize(), called by the resize observer while the container is observed
OnResize(i) ==
    /\ phase[i] = "mounted"
    /\ LET p == props[i]
           rl == IF p.shouldUpdateLayoutWhenNotFocused \/ (editor[i] /\ p.editorFocused)
                 THEN RequestLayout(p, editor[i], TRUE, ed[i], dom[i], view[i], NoDim)
                 ELSE [view |-> view[i], calls |-> <<>>]
       IN /\ view' = [view EXCEPT ![i] = rl.view]
          /\ ed' = [ed EXCEPT ![i] = ApplyLayout(@, rl.calls)]
          /\ pending' = ApplySchedule(pending, i, rl.calls)
          /\ last' = [op |-> "resize", inst |-> i, calls |-> rl.calls, threw |-> FALSE]
    /\ UNCHANGED <<phase, props, editor, dom, models, timers, widgets, pointer, wrapper>>

\* onIntersecting(isIntersecting), called by the intersection observer while
\* the container is observed
OnIntersecting(i, isIntersecting) ==
    /\ phase[i] = "mounted"
    /\ view[i].intersectObservation
    /\ LET rl == Intersecting(props[i], editor[i], TRUE, ed[i], dom[i], view[i], isIntersecting)
       IN /\ view' = [view EXCEPT ![i] = rl.view]
          /\ ed' = [ed EXCEPT ![i] = ApplyLayout(@, rl.calls)]
          /\ pending' = ApplySchedule(pending, i, rl.calls)
          /\ last' = [op |-> "intersecting", inst |-> i, calls |-> rl.calls, threw |-> FALSE,
                      arg |-> isIntersecting]
    /\ UNCHANGED <<phase, props, editor, dom, models, timers, widgets, pointer, wrapper>>

\* The editor's onDidContentSizeChange listener: the content height becomes h
OnContentSizeChange(i, h) ==
    /\ phase[i] = "mounted" /\ editor[i] /\ ~ed[i].disposed
    /\ LET p == props[i]
           contentHeightChanged == h # ed[i].contentHeight
           e1 == [ed[i] EXCEPT !.contentHeight = h]
           rl == IF contentHeightChanged /\ AutoFit(p)
                 THEN RequestLayout(p, editor[i], TRUE, e1, dom[i], view[i], <<e1.layoutWidth, h>>)
                 ELSE [view |-> view[i], calls |-> <<>>]
       IN /\ view' = [view EXCEPT ![i] = rl.view]
          /\ ed' = [ed EXCEPT ![i] = ApplyLayout(e1, rl.calls)]
          /\ pending' = ApplySchedule(pending, i, rl.calls)
          /\ last' = [op |-> "contentSize", inst |-> i, calls |-> rl.calls, threw |-> FALSE]
    /\ UNCHANGED <<phase, props, editor, dom, models, timers, widgets, pointer, wrapper>>

\* The Layout Scheduler's flush, on the tick after the first schedule call: the
\* pending set is drained once, instance by instance, and cleared
Flush ==
    /\ \E i \in Insts : pending[i].scheduled
    /\ LET calls == [i \in Insts |->
                        FlushOne(pending, i, props[i], editor[i], ed[i], dom[i])]
       IN /\ ed' = [i \in Insts |-> ApplyLayout(ed[i], calls[i])]
          /\ last' = [op |-> "flush", inst |-> 0, calls |-> calls[1] \o calls[2], threw |-> FALSE]
    /\ pending' = [i \in Insts |-> Unscheduled]
    /\ UNCHANGED <<phase, props, editor, view, dom, models, timers, widgets, pointer, wrapper>>

\* --------------------------------------------------------------- environment

\* The user types in the editor: the text of the installed model becomes v
UserEdit(i, v) ==
    /\ phase[i] = "mounted" /\ editor[i] /\ ~ed[i].disposed
    /\ ed[i].model # NoModel
    /\ models[ed[i].model].value # v
    /\ models' = [models EXCEPT ![ed[i].model].value = v]
    /\ ed' = ClampCursors(ed, models')
    /\ last' = [op |-> "edit", inst |-> i, calls |-> <<>>, threw |-> FALSE]
    /\ UNCHANGED <<phase, props, editor, view, dom, timers, pending, widgets, pointer, wrapper>>

\* The user moves the cursor of the editor to pos: the cursor-selection listener,
\* if one is registered, forwards the selection to the host
CursorMove(i, pos) ==
    /\ phase[i] = "mounted" /\ editor[i] /\ ~ed[i].disposed
    /\ ed[i].model # NoModel
    /\ pos \in Positions(models[ed[i].model].value)
    /\ pos # ed[i].position
    /\ ed' = [ed EXCEPT ![i].position = pos]
    /\ last' = [op |-> "cursor", inst |-> i,
                calls |-> [k \in 1..view[i].cursorListeners |->
                              Call("onCursorPositionChange", pos)],
                threw |-> FALSE]
    /\ UNCHANGED <<phase, props, editor, view, dom, models, timers, pending, widgets, pointer,
                   wrapper>>

\* The user moves the browser focus into or out of the editor widget, which
\* fires onDidFocusEditorWidget / onDidBlurEditorWidget: onFocus() / onBlur() run.
\* Only one element of the page holds the focus.
WidgetFocus(i, b) ==
    /\ phase[i] = "mounted" /\ editor[i] /\ ~ed[i].disposed
    /\ ed[i].focus # b
    /\ b => dom[i].offsetParent
    /\ b => \A j \in Insts \ {i} : ~ed[j].focus
    /\ ed' = [ed EXCEPT ![i].focus = b]
    /\ IF b
       THEN LET r == OnFocus(props[i], editor[i], view[i])
            IN /\ view' = [view EXCEPT ![i] = r.view]
               /\ widgets' = widgets
               /\ last' = [op |-> "focus", inst |-> i, calls |-> r.calls, threw |-> FALSE]
       ELSE LET r == OnBlur(props[i], editor[i], TRUE, view[i], widgets, i, b, pointer)
            IN /\ view' = [view EXCEPT ![i] = r.view]
               /\ widgets' = r.widgets
               /\ last' = [op |-> "blur", inst |-> i, calls |-> r.calls, threw |-> FALSE]
    /\ UNCHANGED <<phase, props, editor, dom, models, timers, pending, pointer, wrapper>>

\* The debounced mouse-move listener of instance i runs, for a pointer at <<x, y>>
OnMouseMove(i, x, y) ==
    /\ phase[i] = "mounted" /\ editor[i] /\ ~ed[i].disposed
    /\ pointer' = <<x, y>>
    /\ widgets' = HandleCoordsOutsideWidgetActiveRegion(widgets, i, TRUE, x, y)
    /\ last' = [op |-> "mouseMove", inst |-> i, calls |-> <<>>, threw |-> FALSE]
    /\ UNCHANGED <<phase, props, editor, ed, view, dom, models, timers, pending, wrapper>>

\* The native editor shows the parameter hints of instance i, which holds the focus
ShowParameterHints(i) ==
    /\ phase[i] = "mounted" /\ editor[i] /\ ~ed[i].disposed
    /\ ed[i].focus
    /\ ~PopupShown(widgets[i])
    /\ widgets' = [widgets EXCEPT ![i] = [present |-> TRUE, visibleClass |-> TRUE,
                                          visibility |-> "inherit"]]
    /\ last' = [op |-> "showHints", inst |-> i, calls |-> <<>>, threw |-> FALSE]
    /\ UNCHANGED <<phase, props, editor, ed, view, dom, models, timers, pending, pointer, wrapper>>

\* The native editor hides the parameter hints of instance i (Escape, cursor moved away)
HideParameterHints(i) ==
    /\ phase[i] = "mounted" /\ editor[i] /\ ~ed[i].disposed
    /\ PopupShown(widgets[i])
    /\ widgets' = [widgets EXCEPT ![i].visibleClass = FALSE, ![i].visibility = "hidden"]
    /\ last' = [op |-> "hideHints", inst |-> i, calls |-> <<>>, threw |-> FALSE]
    /\ UNCHANGED <<phase, props, editor, ed, view, dom, models, timers, pending, pointer, wrapper>>

\* The page changes the container's place in the layout or its size
SetDom(i, d) ==
    /\ phase[i] # "unmounted"
    /\ dom[i] # d
    /\ dom' = [dom EXCEPT ![i] = d]
    \* an element that is no longer rendered loses the focus
    /\ ed' = [ed EXCEPT ![i].focus = @ /\ d.offsetParent]
    /\ last' = [op |-> "dom", inst |-> i, calls |-> <<>>, threw |-> FALSE]
    /\ UNCHANGED <<phase, props, editor, view, models, timers, pending, widgets, pointer, wrapper>>

\* ------------------------------------------------------- BackboneWrapper

WidgetModels == {"m1", "m2"}
WidgetModelIds == {"id1", "id2"}

\* this.props of the wrapper; manager is whether the optional manager is given
WidgetProps == [model : WidgetModels, model_id : WidgetModelIds, manager : BOOLEAN]

DefaultWidgetProps == [model |-> "m1", model_id |-> "id1", manager |-> FALSE]

\* widgetContainerRef.current before the <div> is mounted and after it is unmounted
NoElement == "null"
\* widgetContainerRef.current while the <div> render() returns is mounted
ContainerDiv == "div"

\* Mutant: a view is created whether or not a manager is given
BackboneDidUpdate_NoManagerCheck(p, el, n) ==
    <<[n |-> n, model |-> p.model, model_id |-> p.model_id, el |-> el]>>

\* componentDidUpdate up to its await: the view creations the pass starts, the n-th
\* creation of the component being [n, model, model_id, el]
BackboneDidUpdate(p, el, n) ==
    IF p.manager
    THEN <<[n |-> n, model |-> p.model, model_id |-> p.model_id, el |-> el]>>
    ELSE <<>>

\* The component is mounted: render() gives the <div>, React sets the ref. The
\* class has no componentDidMount.
BackboneMount(p) ==
    /\ wrapper.phase = "new"
    /\ wrapper' = [wrapper EXCEPT !.phase = "mounted", !.props = p, !.ref = ContainerDiv]
    /\ last' = [op |-> "wrapperMount", inst |-> 0, calls |-> <<>>, threw |-> FALSE]
    /\ UNCHANGED <<phase, props, editor, ed, view, dom, models, timers, pending, widgets, pointer>>

\* An update pass with the new props np: componentDidUpdate runs to its await
BackboneUpdate(np) ==
    /\ wrapper.phase = "mounted"
    /\ LET started == BackboneDidUpdate(np, wrapper.ref, wrapper.created + 1)
       IN /\ wrapper.created + Len(started) <= MaxCreations
          /\ wrapper' = [wrapper EXCEPT !.props = np,
                                        !.created = @ + Len(started),
                                        !.inflight = @ \cup {started[k] : k \in 1..Len(started)}]
          /\ last' = [op |-> "wrapperUpdate", inst |-> 0,
                      calls |-> [k \in 1..Len(started) |-> Call("create_view", started[k].n)],
                      threw |-> FALSE]
    /\ UNCHANGED <<phase, props, editor, ed, view, dom, models, timers, pending, widgets, pointer>>

\* The promise of the creation v is fulfilled: componentDidUpdate resumes after its
\* await and calls widget.render()
CreateViewResolves(v) ==
    /\ v \in wrapper.inflight
    /\ wrapper' = [wrapper EXCEPT !.inflight = @ \ {v}, !.rendered = Append(@, v)]
    /\ last' = [op |-> "viewResolved", inst |-> 0, calls |-> <<Call("render", v.n)>>,
                threw |-> FALSE]
    /\ UNCHANGED <<phase, props, editor, ed, view, dom, models, timers, pending, widgets, pointer>>

\* The promise of the creation v is rejected: the await throws, nothing is rendered
CreateViewRejects(v) ==
    /\ v \in wrapper.inflight
    /\ wrapper' = [wrapper EXCEPT !.inflight = @ \ {v}]
    /\ last' = [op |-> "viewRejected", inst |-> 0, calls |-> <<>>, threw |-> TRUE]
    /\ UNCHANGED <<phase, props, editor, ed, view, dom, models, timers, pending, widgets, pointer>>

\* The component is unmounted: React clears the ref. The class has no
\* componentWillUnmount, the creations in flight stay in flight.
BackboneUnmount ==
    /\ wrapper.phase = "mounted"
    /\ wrapper' = [wrapper EXCEPT !.phase = "unmounted", !.ref = NoElement]
    /\ last' = [op |-> "wrapperUnmount", inst |-> 0, calls |-> <<>>, threw |-> FALSE]
    /\ UNCHANGED <<phase, props, editor, ed, view, dom, models, timers, pending, widgets, pointer>>

\* ---------------------------------------------------------- initial state

DefaultProps ==
    [id |-> 1, contentRef |-> "cr", language |-> "python", value |-> "a",
     editorFocused |-> FALSE, readOnly |-> FALSE, lineNumbers |-> FALSE, theme |-> "vs",
     onFocusChange |-> FALSE, onCursorPositionChange |-> FALSE,
     enableCompletion |-> FALSE, shouldRegisterDefaultCompletion |-> FALSE,
     onRegisterCompletionProvider |-> FALSE,
     enableFormatting |-> FALSE, onRegisterDocumentFormattingEditProvider |-> FALSE,
     skipLayoutWhenHidden |-> FALSE, skipLayoutWhenNotInViewport |-> FALSE,
     batchLayoutChanges |-> FALSE, shouldUpdateLayoutWhenNotFocused |-> FALSE,
     autoFitContentHeight |-> Undef, maxContentHeight |-> 0, initialDimension |-> NoDim]

Rendered == [offsetParent |-> TRUE, offsetHeight |-> 3, clientWidth |-> 1, clientHeight |-> 3]

\* display: none on the container or an ancestor
DisplayNone == [offsetParent |-> FALSE, offsetHeight |-> 0, clientWidth |-> 0, clientHeight |-> 0]

Init ==
    /\ phase = [i \in Insts |-> "new"]
    /\ props = [i \in Insts |-> DefaultProps]
    /\ editor = [i \in Insts |-> FALSE]
    /\ ed = [i \in Insts |-> [model |-> NoModel, disposed |-> FALSE, focus |-> FALSE,
                              position |-> 0, contentHeight |-> 1, layoutWidth |-> 0,
                              options |-> NoOptions]]
    /\ view = [i \in Insts |-> [isInViewport |-> TRUE, deferredLayoutRequest |-> FALSE,
                                deferredLayoutDimension |-> NoDim,
                                intersectObservation |-> FALSE,
                                cursorPositionListener |-> FALSE, cursorListeners |-> 0]]
    /\ dom = [i \in Insts |-> Rendered]
    /\ models = <<>>
    /\ timers = <<>>
    /\ pending = [i \in Insts |-> Unscheduled]
    /\ widgets = [i \in Insts |-> NoWidget]
    /\ pointer = <<0, 0>>
    /\ wrapper = [phase |-> "new", props |-> DefaultWidgetProps, ref |-> NoElement,
                  created |-> 0, inflight |-> {}, rendered |-> <<>>]
    /\ last = [op |-> "init", inst |-> 0, calls |-> <<>>, threw |-> FALSE]

\* -------------------------------------------- one editor, its whole lifecycle

\* The configurations the host gives the editor of cell id
LifecycleProps(id) ==
    {[DefaultProps EXCEPT !.id = id, !.language = l, !.value = v, !.editorFocused = f] :
        l \in Langs, v \in Values, f \in BOOLEAN}

Next ==
    \/ \E wf \in BOOLEAN : \E p \in LifecycleProps(1) : Mount(1, p, NoUri, wf)
    \/ \E np \in LifecycleProps(props[1].id) : Update(1, np)
    \/ \E at \in {"none", "model", "editor"}, done \in BOOLEAN : Unmount(1, at, done)
    \/ RunTimer
    \/ \E v \in Values : UserEdit(1, v)
    \/ \E b \in BOOLEAN : WidgetFocus(1, b)
    \/ \E d \in {Rendered, DisplayNone} : SetDom(1, d)

\* The event loop runs every queued timer callback.
Spec == Init /\ [][Next]_vars /\ WF_vars(RunTimer)

\* ------------------------ two editors, whose cells may resolve to one identity

\* The configurations the host gives an editor of cell id: the language varies
SharedProps(id) == {[DefaultProps EXCEPT !.id = id, !.language = l] : l \in Langs}

\* The modelUri a host may give: none, or the cell identity of cell 1 in markdown
SharedUris == {NoUri, CreateCellUri("cr", 1, "markdown")}

SharedNext ==
    \/ \E i \in Insts, id \in CellIds, uri \in SharedUris : \E p \in SharedProps(id) :
          Mount(i, p, uri, FALSE)
    \/ \E i \in Insts : \E np \in SharedProps(props[i].id) : Update(i, np)
    \/ \E i \in Insts, at \in {"none", "model", "editor"}, done \in BOOLEAN : Unmount(i, at, done)
    \/ RunTimer

SharedSpec == Init /\ [][SharedNext]_vars /\ WF_vars(RunTimer)

\* ---------------------------------------------- one editor, its layout requests

\* height: 0 on a rendered container
ZeroHeight == [offsetParent |-> TRUE, offsetHeight |-> 0, clientWidth |-> 1, clientHeight |-> 0]

\* position: fixed on a rendered container (no offset parent)
Fixed == [offsetParent |-> FALSE, offsetHeight |-> 3, clientWidth |-> 1, clientHeight |-> 3]

LayoutDoms == {Rendered, DisplayNone, ZeroHeight, Fixed}

\* The layout configurations the host gives the editor
LayoutProps(initialDimension) ==
    {[DefaultProps EXCEPT !.skipLayoutWhenHidden = h, !.skipLayoutWhenNotInViewport = v,
                          !.batchLayoutChanges = b, !.shouldUpdateLayoutWhenNotFocused = TRUE,
                          !.initialDimension = initialDimension] :
        h \in BOOLEAN, v \in BOOLEAN, b \in BOOLEAN}

LayoutNext ==
    \/ \E p \in LayoutProps(NoDim) : Mount(1, p, NoUri, FALSE)
    \/ \E np \in LayoutProps(props[1].initialDimension) : Update(1, np)
    \/ Unmount(1, "none", TRUE)
    \/ OnResize(1)
    \/ \E b \in BOOLEAN : OnIntersecting(1, b)
    \/ \E h \in 0..1 : OnContentSizeChange(1, h)
    \/ \E d \in LayoutDoms : SetDom(1, d)
    \/ Flush

LayoutSpec == Init /\ [][LayoutNext]_vars

\* ------------------------- two editors, their layout requests batched together

\* The configurations the host gives an editor whose layout changes are batched
BatchProps(initialDimension) ==
    {[DefaultProps EXCEPT !.batchLayoutChanges = TRUE,
                          !.shouldUpdateLayoutWhenNotFocused = TRUE,
                          !.initialDimension = initialDimension]}

BatchNext ==
    \/ \E i \in Insts, dim \in {NoDim, <<2, 2>>} : \E p \in BatchProps(dim) :
          Mount(i, p, NoUri, FALSE)
    \/ \E i \in Insts, at \in {"none", "editor"} : Unmount(i, at, TRUE)
    \/ \E i \in Insts : OnResize(i)
    \/ \E i \in Insts, h \in 0..1 : OnContentSizeChange(i, h)
    \/ \E i \in Insts : \E d \in {Rendered, DisplayNone} : SetDom(i, d)
    \/ Flush

BatchSpec == Init /\ [][BatchNext]_vars

\* --------------------------------- two editors, their parameter-hint popups

PopupNext ==
    \/ \E i \in Insts : Mount(i, [DefaultProps EXCEPT !.id = i], NoUri, FALSE)
    \/ \E i \in Insts : Unmount(i, "none", TRUE)
    \/ \E i \in Insts, b \in BOOLEAN : WidgetFocus(i, b)
    \/ \E i \in Insts : ShowParameterHints(i)
    \/ \E i \in Insts : HideParameterHints(i)
    \/ \E i \in Insts, x \in Xs, y \in Ys : OnMouseMove(i, x, y)

PopupSpec == Init /\ [][PopupNext]_vars

\* ------------------------------- one editor, its language-feature registration

\* The configurations the host gives the editor: completion and formatting on or
\* off, with or without the host's hooks, the language set or not
ProviderProps ==
    {[DefaultProps EXCEPT !.language = l, !.enableCompletion = c,
                          !.shouldRegisterDefaultCompletion = d,
                          !.onRegisterCompletionProvider = h,
                          !.enableFormatting = f,
                          !.onRegisterDocumentFormattingEditProvider = f] :
        l \in {"", "python"}, c \in BOOLEAN, d \in BOOLEAN, h \in BOOLEAN, f \in BOOLEAN}

ProviderNext ==
    \/ \E p \in ProviderProps : Mount(1, p, NoUri, FALSE)
    \/ \E np \in ProviderProps : Update(1, np)
    \/ Unmount(1, "none", TRUE)
    \/ RunTimer

ProviderSpec == Init /\ [][ProviderNext]_vars

\* ------------------------------------ one editor, its cursor and its language

\* The texts of the cell: one and two characters long
CursorValues == {"a", "ab"}

\* The configurations the host gives the editor: the language and the value vary
CursorProps == {[DefaultProps EXCEPT !.language = l, !.value = v] : l \in Langs, v \in CursorValues}

CursorNext ==
    \/ \E p \in CursorProps : Mount(1, p, NoUri, FALSE)
    \/ \E np \in CursorProps : Update(1, np)
    \/ Unmount(1, "none", TRUE)
    \/ RunTimer
    \/ \E v \in CursorValues : UserEdit(1, v)
    \/ \E pos \in 1..3 : CursorMove(1, pos)

CursorSpec == Init /\ [][CursorNext]_vars

\* ----------------------------------------------- one editor, its display options

Themes == {"vs", "vs-dark"}

\* The configurations the host gives the editor: line numbers, read-only and theme vary
OptionProps ==
    {[DefaultProps EXCEPT !.lineNumbers = n, !.readOnly = r, !.theme = t] :
        n \in BOOLEAN, r \in BOOLEAN, t \in Themes}

OptionNext ==
    \/ \E p \in OptionProps : Mount(1, p, NoUri, FALSE)
    \/ \E np \in OptionProps : Update(1, np)
    \/ Unmount(1, "none", TRUE)
    \/ \E d \in {Rendered, DisplayNone} : SetDom(1, d)

OptionSpec == Init /\ [][OptionNext]_vars

\* --------------------------------------- one editor, its height fitted to content

\* The content heights the editor reports, in pixels: none, below and above MaxHeight
ContentHeights == {0, 1, 4}

\* The maxContentHeight a host configures, below the container's client height
MaxHeight == 2

\* The configurations the host gives the editor: auto-fit unset, on or off, a
\* maximum content height or none, an initial dimension or none
FitProps ==
    {[DefaultProps EXCEPT !.autoFitContentHeight = a, !.maxContentHeight = m,
                          !.initialDimension = dim,
                          !.shouldUpdateLayoutWhenNotFocused = TRUE] :
        a \in {Undef, "true", "false"}, m \in {0, MaxHeight}, dim \in {NoDim, <<2, 4>>}}

FitNext ==
    \/ \E p \in FitProps : Mount(1, p, NoUri, FALSE)
    \/ \E np \in FitProps : Update(1, np)
    \/ Unmount(1, "none", TRUE)
    \/ OnResize(1)
    \/ \E h \in ContentHeights : OnContentSizeChange(1, h)
    \/ \E d \in {Rendered, DisplayNone} : SetDom(1, d)

FitSpec == Init /\ [][FitNext]_vars

\* ------------------------------------------------------------- cell records

\* The characters of a cell source: a letter, a carriage return, a line feed
Chars == {"x", "CR", "LF"}

\* The cell sources of up to MaxSourceLen characters
Sources == UNION {[1..n -> Chars] : n \in 0..MaxSourceLen}

\* normalizeLineEndings(str): every CR LF pair and every lone CR becomes one LF
RECURSIVE NormalizeLineEndings(_)
NormalizeLineEndings(str) ==
    IF str = <<>> THEN <<>>
    ELSE IF Head(str) = "CR"
    THEN IF Len(str) >= 2 /\ str[2] = "LF"
         THEN <<"LF">> \o NormalizeLineEndings(Tail(Tail(str)))
         ELSE <<"LF">> \o NormalizeLineEndings(Tail(str))
    ELSE <<Head(str)>> \o NormalizeLineEndings(Tail(str))

\* The default values of the Record of each cell type
CellDefaults(cellType) ==
    IF cellType = "code"
    THEN [cell_type |-> "code", execution_count |-> "null", metadata |-> "default",
          source |-> <<>>, outputs |-> "empty"]
    ELSE IF cellType = "markdown"
    THEN [attachments |-> "undefined", cell_type |-> "markdown", metadata |-> "default",
          source |-> <<>>]
    ELSE [cell_type |-> "raw", metadata |-> "default", source |-> <<>>]

\* The values a caller gives a factory: those of the keys in `keys`
CellArgs ==
    {a \in [keys : SUBSET {"source", "metadata", "id"}, source : Sources] :
        "source" \notin a.keys => a.source = <<>>}

\* The value of key k among the values given
ArgValue(a, k) == IF k = "source" THEN a.source ELSE "custom"

\* Record<T>(defaults)(values): the given values of the Record's keys, the
\* defaults for the others
RecordFactory(defaults, a) ==
    [k \in DOMAIN defaults |-> IF k \in a.keys THEN ArgValue(a, k) ELSE defaults[k]]

\* Mutant: the factory is not wrapped, the source is left as given
NormalizedSourceCellRecord_Unwrapped(defaults, a) == RecordFactory(defaults, a)

\* normalizedSourceCellRecord(recordFn)(values)
NormalizedSourceCellRecord(defaults, a) ==
    LET res == RecordFactory(defaults, a)
    IN [res EXCEPT !.source = NormalizeLineEndings(res.source)]

\* makeCodeCell(values), makeMarkdownCell(values), makeRawCell(values)
MakeCell(cellType, a) ==
    /\ last' = [op |-> "makeCell", inst |-> 0, calls |-> <<>>, threw |-> FALSE,
                cellType |-> cellType, args |-> a,
                cell |-> NormalizedSourceCellRecord(CellDefaults(cellType), a)]
    /\ UNCHANGED <<phase, props, editor, ed, view, dom, models, timers, pending, widgets,
                   pointer, wrapper>>

MakeCodeCell(a) == MakeCell("code", a)

MakeMarkdownCell(a) == MakeCell("markdown", a)

MakeRawCell(a) == MakeCell("raw", a)

CellNext ==
    \/ \E a \in CellArgs : MakeCodeCell(a)
    \/ \E a \in CellArgs : MakeMarkdownCell(a)
    \/ \E a \in CellArgs : MakeRawCell(a)

CellSpec == Init /\ [][CellNext]_vars

\* ------------------------------------------- one editor, its focus and its blur

\* The configurations the host gives the editor: focus requested or not, with or
\* without the host's focus and cursor callbacks
FocusProps ==
    {[DefaultProps EXCEPT !.editorFocused = f, !.onFocusChange = h,
                          !.onCursorPositionChange = c] :
        f \in BOOLEAN, h \in BOOLEAN, c \in BOOLEAN}

FocusNext ==
    \/ \E wf \in BOOLEAN : \E p \in FocusProps : Mount(1, p, NoUri, wf)
    \/ \E np \in FocusProps : Update(1, np)
    \/ Unmount(1, "none", TRUE)
    \/ \E b \in BOOLEAN : WidgetFocus(1, b)
    \/ \E pos \in 1..2 : CursorMove(1, pos)
    \/ \E d \in {Rendered, DisplayNone} : SetDom(1, d)

FocusSpec == Init /\ [][FocusNext]_vars

\* ------------------------------------- the BackboneWrapper and its view creations

BackboneNext ==
    \/ \E p \in WidgetProps : BackboneMount(p)
    \/ \E np \in WidgetProps : BackboneUpdate(np)
    \/ \E v \in wrapper.inflight : CreateViewResolves(v)
    \/ \E v \in wrapper.inflight : CreateViewRejects(v)
    \/ BackboneUnmount

BackboneSpec == Init /\ [][BackboneNext]_vars

\* ------------------------------------------------------------------ claims

\* The installed model's language, "" when the editor has no model
InstalledLang(ms, e) == IF e.model = NoModel THEN "" ELSE ms[e.model].lang

\* C1: in every update pass on a mounted editor, setValue is called exactly once,
\* with the new value, when the new value property differs from the previous one
\* and from the editor's current text, and not at all otherwise.
C1_SetValueExactlyWhenChanged ==
    [][\A i \in Insts :
          (last'.op = "update" /\ last'.inst = i /\ editor[i]) =>
              CallsNamed(last'.calls, "setValue") =
                  IF props[i].value # props'[i].value
                     /\ EditorGetValue(models, ed[i]) # props'[i].value
                  THEN <<Call("setValue", props'[i].value)>>
                  ELSE <<>>]_vars

\* C1 witness: an update pass has just pushed the new value to the editor
C1_Witness ==
    /\ last.op = "update"
    /\ CallsNamed(last.calls, "setValue") = <<Call("setValue", props[last.inst].value)>>
    /\ EditorGetValue(models, ed[last.inst]) = props[last.inst].value

\* C2 (as claimed): after every update pass in which the configured language
\* differs from the language of the editor's current model, the model installed
\* on the editor is the one at the new identity, of the configured language.
C2_InstalledModelHasConfiguredLanguage ==
    [][\A i \in Insts :
          (last'.op = "update" /\ last'.inst = i /\ editor[i]
             /\ ed[i].model # NoModel /\ InstalledLang(models, ed[i]) # props'[i].language) =>
              /\ ed'[i].model # NoModel
              /\ models'[ed'[i].model].uri =
                     CreateCellUri(props'[i].contentRef, props'[i].id, props'[i].language)
              /\ InstalledLang(models', ed'[i]) = props'[i].language]_vars

\* C3: an update pass creates no model when the configured language equals the
\* installed model's language, none when it differs and a live model exists at the
\* new identity, and exactly one, of the current value and the new language at
\* the new identity, when it differs and no live model exists there.
C3_ModelsCreatedPerPass ==
    [][\A i \in Insts :
          (last'.op = "update" /\ last'.inst = i /\ editor[i] /\ ed[i].model # NoModel) =>
              LET newUri == CreateCellUri(props'[i].contentRef, props'[i].id, props'[i].language)
                  differs == InstalledLang(models, ed[i]) # props'[i].language
                  created == CallsNamed(last'.calls, "createModel")
              IN IF differs /\ GetModel(models, newUri) = NoModel
                 THEN /\ Len(created) = 1
                      /\ Len(models') = Len(models) + 1
                      /\ created[1][2] = Len(models')
                      /\ models'[Len(models')].uri = newUri
                      /\ models'[Len(models')].lang = props'[i].language
                      /\ models'[Len(models')].value = props'[i].value
                      /\ models'[Len(models')].live
                 ELSE /\ created = <<>>
                      /\ Len(models') = Len(models)]_vars

\* C3 witness: an update pass has just created one model, which the editor has installed
C3_Witness ==
    /\ last.op = "update"
    /\ Count(last.calls, "createModel") = 1
    /\ ed[last.inst].model = Len(models)
    /\ models[Len(models)].lang = props[last.inst].language

\* C8: at mount and in every update pass, focus() is called only when
\* editorFocused is true and the editor does not hold widget focus at the call.
C8_FocusOnlyWhenRequestedAndNotHeld ==
    last.op \in {"mount", "update"} =>
        \A k \in 1..Len(last.calls) :
            last.calls[k][1] = "focus" =>
                props[last.inst].editorFocused /\ last.calls[k][2] = FALSE

\* C8 witness: an update pass has just applied focus
C8_Witness ==
    /\ last.op = "update"
    /\ Count(last.calls, "focus") = 1
    /\ ed[last.inst].focus

\* C9 (as claimed): an update pass made while the container is detached from the
\* layout flow calls neither focus() nor requestLayout.
C9_NoFocusNoLayoutWhenDetached ==
    (last.op = "update" /\ editor[last.inst] /\ ~dom[last.inst].offsetParent) =>
        Count(last.calls, "focus") = 0 /\ Count(last.calls, "requestLayout") = 0

\* C10 (as claimed): after unmount has returned the editor handle is absent,
\* whether or not a native dispose threw.
C10_HandleClearedAfterUnmount ==
    last.op = "unmount" => ~editor[last.inst]

\* The models whose deferred disposal is queued
Pending(tm) == {tm[k] : k \in 1..Len(tm)}

\* C4: a language-change update that installs a new model disposes nothing inside
\* the pass: it leaves the previous model live and queues exactly one disposal of
\* it, behind the installation; the queued disposal runs in a later step, once;
\* no model is disposed twice, whatever updates and unmount come in between;
\* and every queued disposal does run.
C4_OldModelDisposedOnceLater ==
    /\ [][/\ (last'.op = "update" /\ Count(last'.calls, "setModel") = 1) =>
                LET old == ed[last'.inst].model
                IN /\ old # NoModel /\ ed'[last'.inst].model # old
                   /\ Count(last'.calls, "dispose") = 0
                   /\ models'[old].live /\ models'[old].disposals = 0
                   /\ timers' = Append(timers, old)
                   /\ \E a, b \in 1..Len(last'.calls) :
                         /\ a < b
                         /\ last'.calls[a][1] = "setModel"
                         /\ last'.calls[b] = Call("setTimeout", old)
          /\ (last'.op = "timer") =>
                /\ timers # <<>> /\ timers' = Tail(timers)
                /\ ed[1].model # Head(timers) /\ ed[2].model # Head(timers)
                /\ models[Head(timers)].live /\ ~models'[Head(timers)].live
                /\ models'[Head(timers)].disposals = 1
          /\ (last'.op \notin {"update", "timer"}) => timers' = timers]_vars
    /\ [](\A m \in ModelIds : models[m].disposals <= 1)
    /\ \A m \in 1..MaxModels :
          (m \in Pending(timers)) ~> (m \in ModelIds /\ ~models[m].live /\ m \notin Pending(timers))

\* C4 witness: the disposal queued by a language-change update has just run, the
\* editor still mounted on the model installed in its place
C4_Witness ==
    /\ last.op = "timer"
    /\ ~models[last.calls[1][2]].live
    /\ phase[1] = "mounted" /\ ed[1].model # NoModel /\ ed[1].model > last.calls[1][2]

\* C5: in every reachable state, over any interleaving of mounts, updates, deferred
\* disposals and unmounts of the editors, no two live models share an identity.
C5_NoTwoLiveModelsShareIdentity ==
    \A m, n \in ModelIds :
        (m # n /\ models[m].live /\ models[n].live) => models[m].uri # models[n].uri

\* C5 witness: a mount found the live model of another mounted editor at its identity
\* and bound it instead of creating one
C5_Witness ==
    /\ last.op = "mount"
    /\ Count(last.calls, "createModel") = 0
    /\ \A i \in Insts : phase[i] = "mounted" /\ ed[i].model = ed[last.inst].model
    /\ ed[last.inst].model # NoModel

\* The handlers that issue layout requests
Requesters == {"mount", "update", "resize", "contentSize"}

\* C6 (as claimed): a layout request issued while the editor is not intersecting
\* the viewport makes no native layout call, and exactly one native layout call is
\* made when the intersection state next becomes true.
C6_ExactlyOneLayoutOnIntersecting ==
    /\ (last.op \in Requesters /\ Count(last.calls, "requestLayout") >= 1
          /\ ~view[last.inst].isInViewport) =>
            Count(last.calls, "layout") = 0
    /\ (last.op = "intersecting" /\ last.arg /\ Count(last.calls, "requestLayout") = 1) =>
            Count(last.calls, "layout") = 1

\* C6 (amended): a layout request issued while the editor is assumed out of the
\* viewport makes no native layout call and hands nothing to the scheduler: it is
\* stashed with its dimension. When the intersection state next becomes true with
\* the request pending, the request is issued again once, with the stashed
\* dimension: it makes exactly one native layout call when batching is off, the
\* container is not skipped as hidden and a dimension is stashed or measured
\* non-zero; with batching on it is handed to the scheduler; otherwise it makes
\* no native layout call.
C6_DeferredLayoutFlushedOnIntersecting ==
    [][\A i \in Insts :
        /\ (last'.op \in Requesters /\ last'.inst = i /\ editor'[i]
              /\ Count(last'.calls, "requestLayout") >= 1 /\ ~view'[i].isInViewport) =>
                LET asked == CallsNamed(last'.calls, "requestLayout")
                IN /\ Count(last'.calls, "layout") = 0
                   /\ Count(last'.calls, "scheduleEditorForLayout") = 0
                   /\ view'[i].deferredLayoutRequest
                   /\ view'[i].deferredLayoutDimension = asked[Len(asked)][2]
        /\ (last'.op = "intersecting" /\ last'.inst = i /\ last'.arg /\ editor[i]
              /\ ~view[i].isInViewport /\ view[i].deferredLayoutRequest) =>
                LET stash == view[i].deferredLayoutDimension
                    pass == ShouldLayout(props[i], TRUE, dom[i])
                    batch == props[i].batchLayoutChanges
                    dim == IF stash # NoDim THEN stash
                           ELSE GetLayoutDimension(props[i], TRUE, ed[i], dom[i])
                IN /\ view'[i].isInViewport /\ ~view'[i].deferredLayoutRequest
                   /\ CallsNamed(last'.calls, "requestLayout") = <<Call("requestLayout", stash)>>
                   /\ CallsNamed(last'.calls, "layout") =
                         IF pass /\ ~batch /\ dim # NoDim THEN <<Call("layout", dim)>> ELSE <<>>
                   /\ CallsNamed(last'.calls, "scheduleEditorForLayout") =
                         IF pass /\ batch THEN <<Call("scheduleEditorForLayout", stash)>>
                         ELSE <<>>]_vars

\* C6 witness: the editor has just come into the viewport and the deferred request,
\* stashed with an explicit dimension, has made its one native layout call
C6_Witness ==
    /\ last.op = "intersecting" /\ last.arg
    /\ Count(last.calls, "requestLayout") = 1
    /\ CallsNamed(last.calls, "requestLayout")[1][2] # NoDim
    /\ CallsNamed(last.calls, "layout")
          = <<Call("layout", CallsNamed(last.calls, "requestLayout")[1][2])>>

\* C7: with skipLayoutWhenHidden enabled, a layout request made while the
\* container is hidden (no offset parent or zero offset height) makes no native
\* layout call and hands nothing to the scheduler, whatever the intersection
\* state, the batching flag and the supplied dimension are.
C7_NoLayoutWhileHidden ==
    (last.op \in Requesters \cup {"intersecting"}
       /\ props[last.inst].skipLayoutWhenHidden
       /\ (~dom[last.inst].offsetParent \/ dom[last.inst].offsetHeight = 0)) =>
          /\ Count(last.calls, "layout") = 0
          /\ Count(last.calls, "scheduleEditorForLayout") = 0

\* C7 witness: a request made in the viewport, on a rendered container of zero
\* height, has just been dropped
C7_Witness ==
    /\ last.op \in Requesters
    /\ Count(last.calls, "requestLayout") = 1
    /\ props[last.inst].skipLayoutWhenHidden
    /\ view[last.inst].isInViewport
    /\ dom[last.inst] = ZeroHeight
    /\ Count(last.calls, "layout") = 0

\* The calls of an unmount that detach a native listener or observer
Detaches == {"unobserve", "intersectObservation", "mouseMoveListener.dispose",
             "cursorPositionListener.dispose"}

\* The calls of an unmount that dispose the model or the editor
Disposals == {"dispose", "editor.dispose"}

\* C11 (as claimed): during unmount every native listener and observer of the
\* instance is detached before the model and the editor are disposed: no detaching
\* call comes after a disposing call.
C11_ListenersDetachedBeforeDisposal ==
    last.op = "unmount" =>
        \A a, b \in 1..Len(last.calls) :
            (last.calls[a][1] \in Disposals /\ last.calls[b][1] \in Detaches) => b < a

\* The calls made on the native editor
NativeCalls == {"layout", "setValue", "focus", "updateOptions"}

\* The instance a logged call belongs to: the flush logs it with the call
CallInst(c) == IF Len(c) = 3 THEN c[3] ELSE last.inst

\* C12 (as claimed): once unmount has run, whether or not a dispose threw in it, no
\* later event of the instance (layout request, scheduled flush, intersection or
\* resize callback, update pass) makes a native call on the disposed editor.
C12_NoNativeCallAfterUnmount ==
    last.op \in {"flush", "resize", "intersecting", "contentSize", "update"} =>
        \A k \in 1..Len(last.calls) :
            phase[CallInst(last.calls[k])] = "unmounted" =>
                last.calls[k][1] \notin NativeCalls

\* C13: after any mount or update pass in which skipLayoutWhenNotInViewport is
\* false, the intersection observation of the instance has ceased and the instance
\* is assumed in the viewport; a mounted instance is never assumed out of the
\* viewport, nor observed, while the feature is disabled.
C13_FailOpenViewport ==
    /\ (last.op \in {"mount", "update"} /\ ~props[last.inst].skipLayoutWhenNotInViewport) =>
            view[last.inst].isInViewport /\ ~view[last.inst].intersectObservation
    /\ \A i \in Insts :
            (phase[i] = "mounted" /\ ~props[i].skipLayoutWhenNotInViewport) =>
                view[i].isInViewport /\ ~view[i].intersectObservation

\* C13 witness: an update pass has just disabled the feature on an instance that
\* had deferred a layout request while assumed out of the viewport
C13_Witness ==
    /\ last.op = "update"
    /\ ~props[last.inst].skipLayoutWhenNotInViewport
    /\ view[last.inst].deferredLayoutRequest
    /\ view[last.inst].isInViewport /\ ~view[last.inst].intersectObservation

\* The calls of a flush that belong to instance i
FlushCallsOf(calls, i) == SelectSeq(calls, LAMBDA c : c[3] = i)

\* C14: with batchLayoutChanges enabled, a layout request makes no native layout
\* call in the handler that issues it: when it passes the viewport and hidden
\* checks it is handed once, with its dimension, to the Layout Scheduler, and
\* otherwise the pending set is left alone; the native layout call for a pending
\* request is made by the scheduler's later flush.
C14_BatchedRequestGoesThroughScheduler ==
    [][\A i \in Insts :
        /\ (last'.op \in Requesters \cup {"intersecting"} /\ last'.inst = i
              /\ props'[i].batchLayoutChanges /\ Count(last'.calls, "requestLayout") >= 1) =>
                LET asked == CallsNamed(last'.calls, "requestLayout")
                    passes == /\ editor'[i]
                              /\ view'[i].isInViewport
                              /\ ShouldLayout(props'[i], TRUE, dom[i])
                IN /\ Len(asked) = 1
                   /\ Count(last'.calls, "layout") = 0
                   /\ CallsNamed(last'.calls, "scheduleEditorForLayout") =
                         IF passes THEN <<Call("scheduleEditorForLayout", asked[1][2])>>
                         ELSE <<>>
                   /\ pending'[i] = IF passes
                                    THEN [scheduled |-> TRUE, dimension |-> asked[1][2]]
                                    ELSE pending[i]
        /\ (last'.op = "flush" /\ pending[i].scheduled /\ editor[i]) =>
                LET dim == IF pending[i].dimension # NoDim THEN pending[i].dimension
                           ELSE GetLayoutDimension(props[i], TRUE, ed[i], dom[i])
                IN FlushCallsOf(last'.calls, i) =
                       IF dim # NoDim THEN <<<<"layout", dim, i>>>> ELSE <<>>]_vars

\* C14 witness: the flush has just made the native layout call of a request that a
\* batching editor had handed to the scheduler
C14_Witness ==
    /\ last.op = "flush"
    /\ Len(FlushCallsOf(last.calls, 1)) = 1
    /\ phase[1] = "mounted" /\ props[1].batchLayoutChanges
    /\ ~pending[1].scheduled

\* C15: every schedule call of an instance registers it in the pending set with
\* the dimension of that call, overwriting the dimension of an earlier call and
\* leaving the other instances' requests alone; the flush calls the native layout
\* of each pending instance at most once, with the pending dimension (a freshly
\* measured one if the last schedule call gave none), calls nothing for an
\* instance that is not pending, and leaves the pending set empty.
C15_SchedulerCoalesces ==
    [][/\ \A i \in Insts :
            (last'.op \in Requesters \cup {"intersecting"} /\ last'.inst = i) =>
                LET sched == CallsNamed(last'.calls, "scheduleEditorForLayout")
                IN /\ pending'[i] = IF sched = <<>> THEN pending[i]
                                    ELSE [scheduled |-> TRUE,
                                          dimension |-> sched[Len(sched)][2]]
                   /\ \A j \in Insts \ {i} : pending'[j] = pending[j]
       /\ last'.op = "flush" =>
            /\ \A i \in Insts :
                  LET dim == IF pending[i].dimension # NoDim THEN pending[i].dimension
                             ELSE GetLayoutDimension(props[i], editor[i], ed[i], dom[i])
                  IN FlushCallsOf(last'.calls, i) =
                        IF pending[i].scheduled /\ editor[i] /\ dim # NoDim
                        THEN <<<<"layout", dim, i>>>> ELSE <<>>
            /\ \A i \in Insts : ~pending'[i].scheduled
       /\ last'.op \notin Requesters \cup {"intersecting", "flush"} => pending' = pending]_vars

\* C15 witness: one flush has just laid out both editors, the first with the
\* dimension its last schedule call gave, the second with a measured one
C15_Witness ==
    /\ last.op = "flush"
    /\ Len(last.calls) = 2
    /\ last.calls[1][3] = 1 /\ last.calls[2][3] = 2
    /\ last.calls[1][2] = <<2, 2>>
    /\ last.calls[2][2] = <<dom[2].clientWidth, ed[2].contentHeight>>
    /\ \A i \in Insts : ~pending[i].scheduled

\* The editors whose parameter-hint popup is displayed
Shown(ws) == {j \in Insts : ws[j].present /\ ws[j].visibleClass /\ ws[j].visibility # "hidden"}

\* The popup element is in the hidden state that hideWidgets leaves
HiddenState(w) == ~w.visibleClass /\ w.visibility = "hidden"

\* <<x, y>> lies in the box of popup j grown by pad on every side, edges included
InBox(j, xy, pad) ==
    /\ xy[1] >= 10 - pad /\ xy[1] <= 20 + pad
    /\ xy[2] >= 10 + 30 * (j - 1) - pad /\ xy[2] <= 20 + 30 * (j - 1) + pad

C17_DismissalFollowsVisiblePopup ==
    [][\A E, v \in Insts :
          (last'.op = "mouseMove" /\ last'.inst = E /\ Shown(widgets) = {v}) =>
              IF ~InBox(v, pointer', 5)
              THEN /\ \A j \in Insts \ {E} : widgets[j].present => HiddenState(widgets'[j])
                   /\ widgets'[E] = widgets[E]
              ELSE widgets' = widgets]_vars

\* C18: on blur of an editor, its own popup is hidden if and only if it is not a
\* visible popup under the pointer and the editor does not retain widget focus;
\* the popups of the other editors are left unchanged.
C18_BlurHidesOwnPopupUnlessHovered ==
    [][\A E \in Insts :
          (last'.op = "blur" /\ last'.inst = E) =>
              LET hovered == E \in Shown(widgets) /\ InBox(E, pointer, 0)
                  hide == ~hovered /\ ~ed'[E].focus
              IN /\ widgets'[E] = IF hide /\ widgets[E].present
                                  THEN [widgets[E] EXCEPT !.visibleClass = FALSE,
                                                         !.visibility = "hidden"]
                                  ELSE widgets[E]
                 /\ hide => E \notin Shown(widgets')
                 /\ ~hide => (E \in Shown(widgets') <=> E \in Shown(widgets))
                 /\ \A j \in Insts \ {E} : widgets'[j] = widgets[j]]_vars

\* C18 witness: a blur has just hidden the editor's own popup and left the visible
\* popup of the other editor, which the pointer is over, alone
C18_Witness ==
    /\ last.op = "blur"
    /\ widgets[last.inst].present /\ HiddenState(widgets[last.inst])
    /\ \E j \in Insts \ {last.inst} : j \in Shown(widgets) /\ InBox(j, pointer, 0)

\* C19: at mount and in every update pass of a mounted editor: with
\* enableCompletion true and a language set, a caller-supplied
\* onRegisterCompletionProvider is invoked once with the language and the default
\* provider is not registered; without the hook the default provider is registered
\* once, for the language, if and only if shouldRegisterDefaultCompletion is true;
\* with enableCompletion false, or no language, neither is invoked.
C19_CompletionRegistration ==
    (last.op \in {"mount", "update"} /\ phase[last.inst] = "mounted") =>
        LET p == props[last.inst]
            hook == CallsNamed(last.calls, "onRegisterCompletionProvider")
            default == CallsNamed(last.calls, "registerDefaultCompletionProvider")
        IN IF p.enableCompletion /\ p.language # ""
           THEN IF p.onRegisterCompletionProvider
                THEN /\ hook = <<Call("onRegisterCompletionProvider", p.language)>>
                     /\ default = <<>>
                ELSE /\ hook = <<>>
                     /\ default = IF p.shouldRegisterDefaultCompletion
                                  THEN <<Call("registerDefaultCompletionProvider", p.language)>>
                                  ELSE <<>>
           ELSE hook = <<>> /\ default = <<>>

\* C19 witness: an update pass has just invoked the caller's hook, and not the
\* default registration that the configuration also asks for
C19_Witness ==
    /\ last.op = "update"
    /\ props[last.inst].enableCompletion
    /\ props[last.inst].shouldRegisterDefaultCompletion
    /\ Count(last.calls, "onRegisterCompletionProvider") = 1
    /\ Count(last.calls, "registerDefaultCompletionProvider") = 0

\* C20: in every reachable state, the model installed on the editor of a mounted
\* Coordinator has had setEOL(LF) applied; at mount it is applied to the model,
\* created or reused, before the editor is created on it, and in a language swap
\* to the new model before it is installed.
C20_InstalledModelForcedToLF ==
    /\ \A i \in Insts :
          (phase[i] = "mounted" /\ editor[i] /\ ed[i].model # NoModel) =>
              models[ed[i].model].eol = "LF"
    /\ last.op \in {"mount", "update"} =>
          \A b \in 1..Len(last.calls) :
              last.calls[b][1] \in {"create", "setModel"} =>
                  \E a \in 1..(b - 1) : last.calls[a] = Call("setEOL", last.calls[b][2])

\* C20 witness: one editor has just installed the model of a language swap, the
\* other is mounted on a model it found at its identity; both are forced to LF
C20_Witness ==
    /\ last.op = "update"
    /\ Count(last.calls, "setModel") = 1
    /\ \A i \in Insts : phase[i] = "mounted" /\ ed[i].model # NoModel
                           /\ models[ed[i].model].eol = "LF"
    /\ Len(models) = 2

\* C21 (as claimed): a Coordinator has at most one live editor at any time: the
\* native editor is created exactly once, by the mount, on a Coordinator that has
\* none; no other handler creates an editor; and unmount destroys the editor.
C21_OneEditorPerCoordinator ==
    [][\A i \in Insts :
          /\ (last'.op = "mount" /\ last'.inst = i) =>
                /\ ~editor[i]
                /\ Count(last'.calls, "create") = 1
                /\ editor'[i] /\ ~ed'[i].disposed
          /\ (last'.op # "mount") => Count(last'.calls, "create") = 0
          /\ (last'.op = "unmount" /\ last'.inst = i /\ editor[i]) => ed'[i].disposed]_vars

\* C22 (as claimed): when a language-change update installs a new model and the
\* editor had a cursor position before the swap (the start of the text if the
\* pass has just replaced the text, else the position held before the pass), the
\* editor's cursor position after the pass equals that position.
C22_CursorPreservedAcrossSwap ==
    [][\A i \in Insts :
          (last'.op = "update" /\ last'.inst = i /\ Count(last'.calls, "setModel") = 1) =>
              LET before == IF Count(last'.calls, "setValue") = 0 THEN ed[i].position ELSE 1
              IN before # 0 => ed'[i].position = before]_vars

\* C23 (as claimed): the editor is created with lineNumbers "on" iff the
\* lineNumbers property is true, "off" otherwise, and after every update pass the
\* line-number, read-only and theme options of the live editor equal those of the
\* current configuration.
C23_OptionsReflectConfiguration ==
    (last.op \in {"mount", "update"} /\ editor[last.inst]) =>
        ed[last.inst].options = CreateOptions(props[last.inst])

\* C24 (as claimed): with autoFitContentHeight false the measured layout
\* dimension is the same whether or not maxContentHeight is configured, and so the
\* height a request without an explicit dimension passes to the native layout is
\* the container's client height.
C24_MaxHeightNeedsAutoFit ==
    \A i \in Insts :
        (phase[i] = "mounted" /\ editor[i] /\ ~AutoFit(props[i])) =>
            /\ GetLayoutDimension(props[i], TRUE, ed[i], dom[i])
                  = GetLayoutDimension([props[i] EXCEPT !.maxContentHeight = 0], TRUE, ed[i], dom[i])
            /\ (last.op \in {"resize", "update"} /\ last.inst = i) =>
                  \A k \in 1..Len(last.calls) :
                      last.calls[k][1] = "layout" => last.calls[k][2][2] = dom[i].clientHeight

\* C25: every cell record produced by makeCodeCell, makeMarkdownCell or
\* makeRawCell has the source that normalizeLineEndings gives for the source of
\* the unwrapped factory's record: it holds no carriage return, it is the given
\* source when that holds none, and normalizing it again changes nothing; every
\* other field is the one of the unwrapped factory's record.
C25_CellSourceNormalized ==
    last.op = "makeCell" =>
        LET plain == RecordFactory(CellDefaults(last.cellType), last.args)
        IN /\ last.cell.source = NormalizeLineEndings(plain.source)
           /\ \A k \in 1..Len(last.cell.source) : last.cell.source[k] # "CR"
           /\ (\A k \in 1..Len(plain.source) : plain.source[k] # "CR") =>
                 last.cell.source = plain.source
           /\ NormalizeLineEndings(last.cell.source) = last.cell.source
           /\ DOMAIN last.cell = DOMAIN plain
           /\ \A f \in DOMAIN plain \ {"source"} : last.cell[f] = plain[f]

\* C25 witness: a markdown cell has just been made from a source with a CR LF
\* pair and a lone CR, and from metadata of the caller
C25_Witness ==
    /\ last.op = "makeCell" /\ last.cellType = "markdown"
    /\ last.args.source = <<"CR", "LF", "CR">>
    /\ last.cell.source = <<"LF", "LF">>
    /\ last.cell.metadata = "custom"

\* C26: viewport transitions are edge-triggered: onIntersecting(b) with b equal to
\* the current intersection state changes no state and makes no layout request; a
\* transition from not-intersecting to intersecting with a deferred request pending
\* clears the deferred flag and issues exactly one layout request, carrying the
\* stashed dimension; a transition to not-intersecting issues no layout request.
C26_ViewportEdgeTriggered ==
    [][\A i \in Insts :
          (last'.op = "intersecting" /\ last'.inst = i) =>
              /\ (view[i].isInViewport = last'.arg) =>
                    /\ last'.calls = <<>>
                    /\ UNCHANGED <<phase, props, editor, ed, view, dom, models, timers,
                                   pending, widgets, pointer>>
              /\ (~view[i].isInViewport /\ last'.arg /\ view[i].deferredLayoutRequest) =>
                    /\ view'[i].isInViewport
                    /\ ~view'[i].deferredLayoutRequest
                    /\ CallsNamed(last'.calls, "requestLayout")
                          = <<Call("requestLayout", view[i].deferredLayoutDimension)>>
              /\ (view[i].isInViewport /\ ~last'.arg) =>
                    /\ ~view'[i].isInViewport
                    /\ Count(last'.calls, "requestLayout") = 0]_vars

\* C26 witness: onIntersecting(false) has just run on an editor that was already
\* out of the viewport with a request deferred: nothing was requested and the
\* request is still deferred
C26_Witness ==
    /\ last.op = "intersecting" /\ ~last.arg
    /\ ~view[last.inst].isInViewport
    /\ view[last.inst].deferredLayoutRequest
    /\ last.calls = <<>>

\* C27: the stash is last-write-wins: after every layout request made while the
\* editor is not intersecting, one request is pending and the stashed dimension
\* is the one of that most recent request, an absent dimension overwriting an
\* explicit one stashed before; and the flush, when the editor next intersects,
\* requests a layout once with exactly the stashed dimension, which is the
\* dimension of the native layout call when it is explicit.
C27_StashLastWriteWins ==
    [][\A i \in Insts :
          /\ (last'.op \in Requesters /\ last'.inst = i /\ editor'[i]
                /\ ~view'[i].isInViewport /\ Count(last'.calls, "requestLayout") >= 1) =>
                  LET asked == CallsNamed(last'.calls, "requestLayout")
                  IN /\ view'[i].deferredLayoutRequest
                     /\ view'[i].deferredLayoutDimension = asked[Len(asked)][2]
          /\ (last'.op = "intersecting" /\ last'.inst = i /\ last'.arg
                /\ ~view[i].isInViewport /\ view[i].deferredLayoutRequest) =>
                  /\ ~view'[i].deferredLayoutRequest
                  /\ CallsNamed(last'.calls, "requestLayout")
                        = <<Call("requestLayout", view[i].deferredLayoutDimension)>>
                  /\ \A k \in 1..Len(last'.calls) :
                        (last'.calls[k][1] \in {"layout", "scheduleEditorForLayout"}
                           /\ view[i].deferredLayoutDimension # NoDim) =>
                              last'.calls[k][2] = view[i].deferredLayoutDimension]_vars

\* C27 witness: a resize request, which carries no dimension, has just been
\* stashed for an editor that is out of the viewport and whose content height had
\* changed before
C27_Witness ==
    /\ last.op = "resize"
    /\ ~view[last.inst].isInViewport
    /\ view[last.inst].deferredLayoutRequest
    /\ view[last.inst].deferredLayoutDimension = NoDim
    /\ ed[last.inst].contentHeight # 1

C29_ContentSizeRequestClamped ==
    [][\A i \in Insts :
          (last'.op = "contentSize" /\ last'.inst = i) =>
              LET asked == CallsNamed(last'.calls, "requestLayout")
                  laid == CallsNamed(last'.calls, "layout")
                  max == props[i].maxContentHeight
                  new == ed'[i].contentHeight
              IN /\ Len(asked) = IF new # ed[i].contentHeight /\ AutoFit(props[i]) THEN 1 ELSE 0
                 /\ \A k \in 1..Len(asked) :
                        asked[k][2][2] = IF max # 0 /\ max < new THEN max ELSE new
                 /\ \A k \in 1..Len(laid) : max # 0 => laid[k][2][2] <= max]_vars

\* C30: each focus-gained event, the user's or the one editor.focus() raises in
\* an update pass, forwards onFocusChange(true) exactly once to a host that
\* supplied the callback, and each focus-lost event forwards onFocusChange(false)
\* exactly once; over every sequence of mounts with focus, focus-gained and
\* focus-lost events at most one cursor-selection listener is registered at any
\* time, and after a focus-lost event none is registered.
C30_FocusEventsForwardedOnce ==
    /\ [][\A i \in Insts :
            /\ (last'.inst = i /\ last'.op \in {"focus", "update"} /\ editor[i]) =>
                  CallsNamed(last'.calls, "onFocusChange") =
                      IF ~ed[i].focus /\ ed'[i].focus /\ props'[i].onFocusChange
                      THEN <<Call("onFocusChange", TRUE)>> ELSE <<>>
            /\ (last'.inst = i /\ last'.op = "blur") =>
                  /\ ed[i].focus /\ ~ed'[i].focus
                  /\ CallsNamed(last'.calls, "onFocusChange") =
                         IF props[i].onFocusChange
                         THEN <<Call("onFocusChange", FALSE)>> ELSE <<>>
                  /\ ~view'[i].cursorPositionListener
                  /\ view'[i].cursorListeners = 0]_vars
    /\ [](\A i \in Insts : view[i].cursorListeners <= 1)

\* C30 witness: a focus-gained event has just been forwarded to the host of an
\* editor that had registered its cursor listener at mount, and one listener is
\* registered
C30_Witness ==
    /\ last.op = "focus"
    /\ last.calls = <<Call("onFocusChange", TRUE), Call("toggleEditorOptions", TRUE),
                      Call("onCursorPositionChange", 0)>>
    /\ view[last.inst].cursorPositionListener
    /\ view[last.inst].cursorListeners = 1

\* C31 (as claimed): in every reachable state of a mounted Coordinator a deferred
\* layout request is pending only while the instance is assumed out of the
\* viewport.
C31_DeferredOnlyWhileOutOfViewport ==
    \A i \in Insts :
        (phase[i] = "mounted" /\ view[i].deferredLayoutRequest) => ~view[i].isInViewport

\* The model m is installed on the live editor of the mounted Coordinator j
InstalledOn(m, j) ==
    phase[j] = "mounted" /\ editor[j] /\ ~ed[j].disposed /\ ed[j].model = m

\* C32 (as claimed): a model is never disposed while it is installed on a mounted
\* Coordinator's live editor: every disposal, by an unmount or by a deferred
\* disposal timer, targets a model that no mounted editor other than the one
\* being unmounted has installed.
C32_NoDisposalOfInstalledModel ==
    [][\A m \in ModelIds :
          (models[m].live /\ ~models'[m].live) =>
              \A j \in Insts \ {last'.inst} : ~InstalledOn(m, j)]_vars

\* The creation numbers of the views rendered so far, in the order of the renders
RenderedNumbers == [k \in 1..Len(wrapper.rendered) |-> wrapper.rendered[k].n]

\* C33: every update pass of the BackboneWrapper with a manager starts exactly one
\* view creation, for the model and model_id of the pass, in the container element,
\* and renders nothing itself; an update pass without a manager, and the mount,
\* create and render nothing; a view is rendered only by the resolution of its
\* creation, appended to the renders in resolution order, and no view is rendered
\* twice or while its creation is still in flight.
C33_OneCreationPerManagedUpdate ==
    /\ [][/\ last'.op = "wrapperUpdate" =>
                /\ wrapper'.rendered = wrapper.rendered
                /\ IF wrapper'.props.manager
                   THEN /\ wrapper'.created = wrapper.created + 1
                        /\ wrapper'.inflight = wrapper.inflight \cup
                              {[n |-> wrapper'.created, model |-> wrapper'.props.model,
                                model_id |-> wrapper'.props.model_id, el |-> ContainerDiv]}
                        /\ last'.calls = <<Call("create_view", wrapper'.created)>>
                   ELSE /\ wrapper'.created = wrapper.created
                        /\ wrapper'.inflight = wrapper.inflight
                        /\ last'.calls = <<>>
          /\ last'.op = "wrapperMount" =>
                /\ wrapper'.created = 0 /\ wrapper'.inflight = {} /\ wrapper'.rendered = <<>>
                /\ last'.calls = <<>>
          /\ wrapper'.rendered # wrapper.rendered =>
                /\ last'.op = "viewResolved"
                /\ \E v \in wrapper.inflight :
                      /\ wrapper'.rendered = Append(wrapper.rendered, v)
                      /\ wrapper'.inflight = wrapper.inflight \ {v}
                      /\ last'.calls = <<Call("render", v.n)>>]_vars
    /\ [](/\ \A j, k \in 1..Len(wrapper.rendered) :
                RenderedNumbers[j] = RenderedNumbers[k] => j = k
          /\ \A v \in wrapper.inflight, k \in 1..Len(wrapper.rendered) :
                v.n # RenderedNumbers[k]
          /\ \A k \in 1..Len(wrapper.rendered) : RenderedNumbers[k] \in 1..wrapper.created)

\* Two creations of overlapping update passes resolved in the opposite order: the
\* later pass's view is rendered first.
C33_Witness ==
    /\ Len(wrapper.rendered) >= 2
    /\ RenderedNumbers[1] > RenderedNumbers[2]
    /\ wrapper.rendered[1].model # wrapper.rendered[2].model

====
